---- MODULE Spec2Model ----
(***************************************************************************)
(* MyNewsRobot: the deduplication ledger (MemoryManager), article          *)
(* discovery (news_scraper.main), the bookmark loader, the selection step  *)
(* (analyze_articles) and the run_workflow pipeline of src/main.py.        *)
(*                                                                         *)
(* Python values are modelled as follows.                                  *)
(*   str    a sequence of one-character strings, <<"a", "B", " ">>, so     *)
(*          that strip(), lower() and < are computed character by          *)
(*          character; labels that are only compared for equality          *)
(*          (source names, categories, topic names) are TLA+ strings       *)
(*   None   the one-element sequence <<"None">>, which no str equals        *)
(*   dict   a record; a key the dict does not hold is a field the record   *)
(*          does not have; the dict without keys is EmptyDict              *)
(*   list   a sequence                                                     *)
(***************************************************************************)
EXTENDS Integers, Sequences, FiniteSets, TLC

VARIABLES
    processed_urls,   \* MemoryManager._processed_urls of this process
    session_ttl_days, \* MemoryManager.session_ttl_days of this process
    recorded,         \* history: the raw urls passed to add_processed_url
    ret,              \* the last call on the ledger and what it returned
    scraper_input,    \* what news_scraper.main read: sources, fetch results, bookmark file
    output_file,      \* discovered_articles.json (OUTPUT_FILE): written by news_scraper.main
    pc,               \* run_workflow: where the current /run request stands
    discovered_articles, \* run_workflow: the list loaded from discovered_articles.json
    analyzed_articles,\* run_workflow: the selection result
    newsletter_content, \* run_workflow: the writer's newsletter body
    publication_result, \* history: what publish_newsletter returned last
    writing_prompt,   \* write_newsletter: the prompt handed to the writing agent
    publishing_prompt,\* publish_newsletter: the prompt handed to the publishing agent
    analysis_file,    \* analyzed_articles.json
    draft_file,       \* newsletter_draft.html
    response,         \* the RunResponse (or the error) of the last finished run
    runs,             \* number of /run requests finished so far
    delivered,        \* history: urls of the non-bookmark articles of finished runs
    tool_call,        \* the last call of a tool's run() and what it sent and returned
    calls             \* history: the last analyze_articles calls made on one pool

vars == <<processed_urls, session_ttl_days, recorded, ret, scraper_input, output_file, pc,
          discovered_articles, analyzed_articles,
          newsletter_content, publication_result, writing_prompt,
          publishing_prompt, analysis_file, draft_file, response, runs,
          delivered, tool_call, calls>>

ledgerVars == <<processed_urls, session_ttl_days, recorded, ret>>
scraperVars == <<scraper_input, output_file>>
runVars == <<pc, discovered_articles, analyzed_articles,
             newsletter_content, publication_result, writing_prompt,
             publishing_prompt, analysis_file, draft_file, response, runs, delivered>>

\* Python's None, where a str may stand too
None == <<"None">>

Min(a, b) == IF a <= b THEN a ELSE b

(***************************************************************************)
(* Python values                                                           *)
(*                                                                         *)
(* A str is the sequence of its characters, a list the sequence of its     *)
(* items, a dict a record, a bool a BOOLEAN, an int an Int. Values of      *)
(* different kinds cannot be compared with = here, so the tests every      *)
(* Python value passes (truth, is None) go through the value's printed     *)
(* form.                                                                   *)
(***************************************************************************)

\* the first character of the printed form tells the kinds apart
kind(x) ==
    LET c == SubSeq(ToString(x), 1, 1)
    IN  IF c = "<" THEN "list"
        ELSE IF c \in {"[", "("} THEN "dict"
        ELSE IF c = "\"" THEN "text"
        ELSE IF c = "{" THEN "set"
        ELSE IF c \in {"T", "F"} THEN "bool"
        ELSE "int"

\* {}: a record has at least one field, so the dict without keys is the
\* record of the one field no_key, which no dict of the program holds
EmptyDict == [no_key |-> TRUE]

\* the printed forms of None and of the values whose truth value is False:
\* None, False, 0, "" and [] (as a sequence and as a function of no
\* argument, which is what str_lower gives for ""), {} and set()
NoneForm == ToString(None)
FalsyForms ==
    {ToString(None), ToString(FALSE), ToString(0), ToString(<<>>),
     ToString([i \in {} |-> 0]), ToString(""), ToString(EmptyDict), ToString({})}

\* x is None
is_none(x) == ToString(x) = NoneForm

\* bool(x) is False
falsy(x) == ToString(x) \in FalsyForms

\* bool(x)
truthy(x) == ~falsy(x)

\* a or b
py_or(a, b) == IF falsy(a) THEN b ELSE a

\* what a call that may raise gives: its value, or the exception's class
Returned(val) == [raised |-> FALSE, val |-> val]
Raised(error) == [raised |-> TRUE, error |-> error]

(***************************************************************************)
(* Python str operations                                                   *)
(***************************************************************************)

\* The characters str.strip() removes, those of str.isspace() up to U+00FF:
\* space, \t, \n, \r, \f, then U+000B, U+001C, U+001D, U+001E, U+001F, U+0085
\* and U+00A0, each written as the character itself. The white space beyond
\* U+00FF (U+1680, U+2000..U+200A, U+2028, U+2029, U+202F, U+205F, U+3000) cannot
\* be written in a string here and is outside the alphabet.
Whitespace == {" ", "\t", "\n", "\r", "\f",
               "", "", "", "", "", "", " "}

\* The characters str.lower() changes, up to U+00FF, and what it gives for
\* each: A..Z, then the 30 capitals of U+00C0..U+00DE (U+00D7 is the
\* multiplication sign). The cased characters beyond U+00FF are outside the
\* alphabet.
UpperCase == <<"A","B","C","D","E","F","G","H","I","J","K","L","M",
               "N","O","P","Q","R","S","T","U","V","W","X","Y","Z",
               "À","Á","Â","Ã","Ä","Å","Æ","Ç","È","É","Ê","Ë","Ì","Í","Î",
               "Ï","Ð","Ñ","Ò","Ó","Ô","Õ","Ö","Ø","Ù","Ú","Û","Ü","Ý","Þ">>
LowerCase == <<"a","b","c","d","e","f","g","h","i","j","k","l","m",
               "n","o","p","q","r","s","t","u","v","w","x","y","z",
               "à","á","â","ã","ä","å","æ","ç","è","é","ê","ë","ì","í","î",
               "ï","ð","ñ","ò","ó","ô","õ","ö","ø","ù","ú","û","ü","ý","þ">>

Digits == <<"0", "1", "2", "3", "4", "5", "6", "7", "8", "9">>

\* The characters the model orders, in code point order (str.__lt__).
CodePoints == <<"\t", "\n", "", "\f", "\r", "", "", "", "",
                " ", "&", "-", ".", "/",
                "0","1","2","3","4","5","6","7","8","9", ":", "=", "?">>
              \o SubSeq(UpperCase, 1, 26) \o <<"_">> \o SubSeq(LowerCase, 1, 26)
              \o <<"", " ">>
              \o SubSeq(UpperCase, 27, 56) \o SubSeq(LowerCase, 27, 56)

ord(c) == CHOOSE i \in DOMAIN CodePoints : CodePoints[i] = c

\* str.__lt__: lexicographic by code point, a proper prefix first.
RECURSIVE str_lt(_, _)
str_lt(s, t) ==
    IF t = <<>> THEN FALSE
    ELSE IF s = <<>> THEN TRUE
    ELSE IF Head(s) # Head(t) THEN ord(Head(s)) < ord(Head(t))
    ELSE str_lt(Tail(s), Tail(t))

Capitals == {UpperCase[k] : k \in DOMAIN UpperCase}

char_lower(c) ==
    IF c \in Capitals
    THEN LowerCase[CHOOSE k \in DOMAIN UpperCase : UpperCase[k] = c]
    ELSE c

\* str.lower()
str_lower(s) == [i \in 1..Len(s) |-> char_lower(s[i])]

RECURSIVE str_lstrip(_)
str_lstrip(s) ==
    IF s # <<>> /\ Head(s) \in Whitespace THEN str_lstrip(Tail(s)) ELSE s

RECURSIVE str_rstrip(_)
str_rstrip(s) ==
    IF s # <<>> /\ s[Len(s)] \in Whitespace
    THEN str_rstrip(SubSeq(s, 1, Len(s) - 1)) ELSE s

\* str.strip()
str_strip(s) == str_rstrip(str_lstrip(s))

(***************************************************************************)
(* MemoryManager (src/utils/memory_manager.py)                             *)
(***************************************************************************)

\* url.strip().lower(), the form both add_processed_url and is_processed use
normalize(url) == str_lower(str_strip(url))

\* MemoryManager.__init__: self._processed_urls = set()
MemoryManagerInit == {}
DefaultTtlDays == 7

\* self._processed_urls.add(url.strip().lower())
add_processed_url_raw(urls, url) == urls \cup {url}
add_processed_url(urls, url) == urls \cup {normalize(url)}

\* return url.strip().lower() in self._processed_urls
is_processed_raw(urls, url) == url \in urls
is_processed(urls, url) == normalize(url) \in urls

\* return [url for url in urls if not self.is_processed(url)]
get_unprocessed_urls(urls, list) ==
    SelectSeq(list, LAMBDA u : ~is_processed(urls, u))

\* return len(self._processed_urls)
get_processed_count(urls) == Cardinality(urls)

\* clear_old_entries: reads the size, removes nothing, returns 0
clear_old_entries_result(urls) == 0
clear_old_entries_evicts(urls) == {}
clear_old_entries_state(urls) == urls

\* save_state: the list is list(self._processed_urls), in any order, the
\* timestamp is the clock's
save_state(url_list, timestamp, ttl_days) ==
    [processed_urls |-> url_list, timestamp |-> timestamp, ttl_days |-> ttl_days]

\* load_state: the set and the ttl after the call
load_state_urls(urls, state) ==
    IF "processed_urls" \in DOMAIN state
    THEN {state.processed_urls[i] : i \in DOMAIN state.processed_urls}
    ELSE urls
load_state_ttl(ttl_days, state) ==
    IF "ttl_days" \in DOMAIN state THEN state.ttl_days ELSE ttl_days

\* NewsResearchAgent.mark_as_processed: add_processed_url for each url in turn
RECURSIVE mark_as_processed(_, _)
mark_as_processed(urls, list) ==
    IF list = <<>> THEN urls
    ELSE mark_as_processed(add_processed_url(urls, Head(list)), Tail(list))

(***************************************************************************)
(* BookmarkLoaderTool (src/tools/bookmark_loader_tool.py)                  *)
(*                                                                         *)
(* The bookmark file is [state |-> "missing"], [state |-> "unparsable"]    *)
(* or [state |-> "ok", data |-> d], d what yaml.safe_load returns. A list  *)
(* entry that is not a mapping is the entry itself or [scalar |-> s].      *)
(***************************************************************************)

\* dict.get(key, default)
get(d, key, default) == IF key \in DOMAIN d THEN d[key] ELSE default

\* isinstance(x, dict)
is_dict(x) == kind(x) = "dict" /\ "scalar" \notin DOMAIN x

\* iter(x) raises TypeError for a bool or a number
iterable(x) == kind(x) \notin {"bool", "int"}

BookmarkPriority == 11

\* the dict _load_from_local appends for a valid entry
validated_bookmark(bookmark) ==
    [url |-> bookmark.url,
     note |-> get(bookmark, "note", <<>>),
     submitted_date |-> get(bookmark, "submitted_date", <<>>),
     priority |-> BookmarkPriority]

\* the validation loop of _load_from_local: non-dicts and dicts without a
\* url are skipped; the keys of a mapping and the items of a set are not dicts
validate_bookmarks_any_dict(bookmarks) ==
    LET RECURSIVE loop(_)
        loop(rest) ==
            IF rest = <<>> THEN <<>>
            ELSE LET bookmark == Head(rest)
                 IN  IF ~is_dict(bookmark) THEN loop(Tail(rest))
                     ELSE <<[url |-> get(bookmark, "url", None),
                             note |-> get(bookmark, "note", <<>>),
                             submitted_date |-> get(bookmark, "submitted_date", <<>>),
                             priority |-> BookmarkPriority]>> \o loop(Tail(rest))
    IN  IF kind(bookmarks) # "list" THEN <<>> ELSE loop(bookmarks)
validate_bookmarks(bookmarks) ==
    LET RECURSIVE loop(_)
        loop(rest) ==
            IF rest = <<>> THEN <<>>
            ELSE LET bookmark == Head(rest)
                 IN  IF ~is_dict(bookmark) THEN loop(Tail(rest))
                     ELSE IF "url" \notin DOMAIN bookmark THEN loop(Tail(rest))
                     ELSE <<validated_bookmark(bookmark)>> \o loop(Tail(rest))
    IN  IF kind(bookmarks) # "list" THEN <<>> ELSE loop(bookmarks)

\* data.get("bookmarks") or []
bookmarks_or_empty(data) == py_or(get(data, "bookmarks", None), <<>>)

\* lines 99-128: data.get raises AttributeError when the file does not hold a
\* mapping, the for loop raises TypeError when bookmarks cannot be iterated
_load_from_local(data) ==
    IF ~is_dict(data) THEN Raised("object has no attribute 'get'")
    ELSE IF ~iterable(bookmarks_or_empty(data)) THEN Raised("object is not iterable")
    ELSE LET validated_bookmarks == validate_bookmarks(bookmarks_or_empty(data))
         IN  [success |-> TRUE,
              bookmarks |-> validated_bookmarks,
              count |-> Len(validated_bookmarks),
              source |-> "local"]

\* lines 164-188: the same validation for a file downloaded from the bucket
_load_from_gcs(data) ==
    IF ~is_dict(data) THEN Raised("object has no attribute 'get'")
    ELSE IF ~iterable(bookmarks_or_empty(data)) THEN Raised("object is not iterable")
    ELSE LET validated_bookmarks == validate_bookmarks(bookmarks_or_empty(data))
         IN  [success |-> TRUE,
              bookmarks |-> validated_bookmarks,
              count |-> Len(validated_bookmarks),
              source |-> "gcs"]

\* self.config_path.startswith("gs://")
is_gcs(file) == get(file, "gcs", FALSE)

source_of_file(file) == IF is_gcs(file) THEN "gcs" ELSE "local"

\* lines 70-78: the result for FileNotFoundError
not_found_result(file) ==
    [success |-> TRUE, bookmarks |-> <<>>, count |-> 0, source |-> source_of_file(file),
     warning |-> "Bookmark file not found, returning empty list"]

\* lines 79-86: the result for any other exception
loader_error_result(file, error) ==
    [success |-> FALSE, bookmarks |-> <<>>, count |-> 0, source |-> source_of_file(file),
     error |-> error]

\* BookmarkLoaderTool.run: open() raises FileNotFoundError for a local file
\* that does not exist, blob.download_as_text() raises NotFound for an object
\* that does not exist, yaml.safe_load raises for a file that is not YAML;
\* whatever the load raises besides FileNotFoundError becomes the error result
BookmarkLoaderTool_run(file) ==
    IF file.state = "missing"
    THEN IF is_gcs(file) THEN loader_error_result(file, "404 No such object")
         ELSE not_found_result(file)
    ELSE IF file.state = "unparsable" THEN loader_error_result(file, "yaml error")
    ELSE LET loaded == IF is_gcs(file) THEN _load_from_gcs(file.data)
                       ELSE _load_from_local(file.data)
         IN  IF "raised" \in DOMAIN loaded THEN loader_error_result(file, loaded.error)
             ELSE loaded

\* load_user_bookmarks(), imported by news_scraper from src.tools: the tool's
\* run() as a plain function
load_user_bookmarks(file) == BookmarkLoaderTool_run(file)

(***************************************************************************)
(* news_scraper.main (src/news_scraper.py)                                 *)
(*                                                                         *)
(* Its input is [news_config, results, bookmark_file]: the dict            *)
(* get_news_sources() returns, whose news_sources mapping is the Mapping   *)
(* of its [key, value] items in file order, the result scrape_web_content  *)
(* returns for each source, and the bookmark file.                         *)
(***************************************************************************)

\* the dict appended to sources for one page
source_of(page, category) ==
    [url |-> page.url, name |-> page.name,
     type |-> get(page, "type", "auto"), category |-> category]

\* news_config.get("news_sources") when it is a mapping: its items in file
\* order, each [key, value]
Mapping(items) == [items |-> items]

is_mapping(x) == is_dict(x) /\ DOMAIN x = {"items"}

\* lines 33-43: the pages of every category, in file order. None and a list
\* have no get() and a list has no items() (AttributeError); a number is
\* not iterable and a str, a dict or a set gives items page["url"] cannot
\* index, as a page that is no dict cannot be (TypeError); page["url"] and
\* page["name"] raise KeyError. The first failure in file order is raised.
load_sources(news_config) ==
    LET then(rest, found) ==
            IF rest.raised THEN rest ELSE Returned(found \o rest.val)
        RECURSIVE page_sources(_, _)
        page_sources(pages, category) ==
            IF Len(pages) = 0 THEN Returned(<<>>)
            ELSE IF ~is_dict(Head(pages)) THEN Raised("TypeError")
            ELSE IF "url" \notin DOMAIN Head(pages) \/ "name" \notin DOMAIN Head(pages)
            THEN Raised("KeyError")
            ELSE then(page_sources(Tail(pages), category),
                      <<source_of(Head(pages), category)>>)
        category_pages(pages, category) ==
            IF kind(pages) # "list" THEN Raised("TypeError")
            ELSE page_sources(pages, category)
        RECURSIVE category_sources(_)
        after(found, items) ==
            IF found.raised THEN found ELSE then(category_sources(items), found.val)
        category_sources(items) ==
            IF Len(items) = 0 THEN Returned(<<>>)
            ELSE IF ~is_dict(Head(items).value) THEN Raised("AttributeError")
            ELSE after(category_pages(py_or(get(Head(items).value, "pages", None), <<>>),
                                      Head(items).key),
                       Tail(items))
        all_sources(news_sources) ==
            IF falsy(news_sources) THEN Returned(<<>>)
            ELSE IF ~is_mapping(news_sources) THEN Raised("AttributeError")
            ELSE category_sources(news_sources.items)
    IN  IF ~is_dict(news_config) THEN Raised("AttributeError")
        ELSE all_sources(get(news_config, "news_sources", None))

\* lines 75-83: the article built from one feed entry
entry_article(entry, source) ==
    [url |-> get(entry, "link", None),
     title |-> get(entry, "title", None),
     excerpt |-> py_or(get(entry, "summary", None), get(entry, "content", None)),
     source |-> source.name,
     category |-> source.category,
     published_date |-> get(entry, "published_date", None),
     is_bookmark |-> FALSE]

\* lines 84-86: an entry's article is kept unless its url is in the ledger;
\* is_processed raises AttributeError for the url None (None has no strip)
keeps_all(urls, article) == Returned(TRUE)
keeps(urls, article) ==
    IF is_none(article.url) THEN Raised("AttributeError")
    ELSE Returned(~is_processed(urls, article.url))

\* lines 74-86: the loop over the entries of one feed
RECURSIVE entry_articles(_, _, _)
entry_articles(entries, source, urls) ==
    IF entries = <<>> THEN Returned(<<>>)
    ELSE LET article == entry_article(Head(entries), source)
             kept == keeps(urls, article)
             rest == entry_articles(Tail(entries), source, urls)
         IN  IF kept.raised THEN kept
             ELSE IF rest.raised THEN rest
             ELSE Returned((IF kept.val THEN <<article>> ELSE <<>>) \o rest.val)

\* lines 55-88: what one source contributes
source_articles(source, result, urls) ==
    IF source.type \notin {"rss", "auto"} THEN Returned(<<>>)
    ELSE IF falsy(get(result, "success", None)) THEN Returned(<<>>)
    ELSE IF get(result, "type", "none") # "rss" THEN Returned(<<>>)
    ELSE entry_articles(py_or(get(result, "entries", None), <<>>), source, urls)

\* lines 52-88: the loop over the sources
RECURSIVE scrape_sources_stop(_, _, _, _)
scrape_sources_stop(sources, results, urls, i) ==
    IF i > Len(sources) THEN Returned(<<>>)
    ELSE IF falsy(get(results[i], "success", None)) THEN Returned(<<>>)
    ELSE LET first == source_articles(sources[i], results[i], urls)
             rest == scrape_sources_stop(sources, results, urls, i + 1)
         IN  IF first.raised THEN first
             ELSE IF rest.raised THEN rest
             ELSE Returned(first.val \o rest.val)
RECURSIVE scrape_sources(_, _, _, _)
scrape_sources(sources, results, urls, i) ==
    IF i > Len(sources) THEN Returned(<<>>)
    ELSE LET first == source_articles(sources[i], results[i], urls)
             rest == scrape_sources(sources, results, urls, i + 1)
         IN  IF first.raised THEN first
             ELSE IF rest.raised THEN rest
             ELSE Returned(first.val \o rest.val)

\* lines 91-100: the article built from one bookmark
bookmark_article(bm) ==
    [url |-> bm.url,
     title |-> get(bm, "note", <<"U","s","e","r"," ","B","o","o","k","m","a","r","k">>),
     excerpt |-> get(bm, "note", <<>>),
     source |-> "User Bookmark",
     category |-> "bookmark",
     published_date |-> get(bm, "submitted_date", None),
     is_bookmark |-> TRUE]

\* json.dump writes x: a set is not JSON serializable (TypeError), nor is
\* a list or a dict that holds one
RECURSIVE json_serializable(_)
json_serializable(x) ==
    LET of_kind(k) ==
            IF k = "set" THEN FALSE
            ELSE IF k = "list" THEN \A i \in 1..Len(x) : json_serializable(x[i])
            ELSE IF k = "dict" THEN \A key \in DOMAIN x : json_serializable(x[key])
            ELSE TRUE
    IN  of_kind(kind(x))

\* main(): the list dumped to discovered_articles.json as its last step, or
\* the exception that ends main(), and whether line 105 had opened the file
\* by then (json.dump raises after open() has emptied it)
news_scraper_main(input, urls) ==
    LET before_open(failed) == [raised |-> TRUE, error |-> failed.error, opened |-> FALSE]
        \* articles is a list of dicts with str keys
        dumped(articles) ==
            IF \A i \in 1..Len(articles) :
                   \A k \in DOMAIN articles[i] : json_serializable(articles[i][k])
            THEN [raised |-> FALSE, val |-> articles, opened |-> TRUE]
            ELSE [raised |-> TRUE, error |-> "TypeError", opened |-> TRUE]
        with_bookmarks(scraped, bookmarks) ==
            IF scraped.raised THEN before_open(scraped)
            ELSE dumped(scraped.val
                        \o [i \in 1..Len(bookmarks) |-> bookmark_article(bookmarks[i])])
        scraped_from(sources) ==
            IF sources.raised THEN before_open(sources)
            ELSE with_bookmarks(scrape_sources(sources.val, input.results, urls, 1),
                                get(load_user_bookmarks(input.bookmark_file), "bookmarks", <<>>))
    IN  scraped_from(load_sources(input.news_config))

(***************************************************************************)
(* analyze_articles (src/main.py)                                          *)
(*                                                                         *)
(* The agent's response text is a sequence of tokens: Open "[", Close "]", *)
(* Txt (any text that holds no bracket, no quote and no JSON) and Obj(d),  *)
(* the JSON text of the object d, its keys in the order of ObjectKeys and  *)
(* its values strings, numbers, booleans or null. Commas and white space   *)
(* between values are not modelled. The brackets of the text are the Open  *)
(* and Close tokens and the "[" and "]" inside the strings of the objects. *)
(***************************************************************************)

Open == [t |-> "["]
Close == [t |-> "]"]
Txt == [t |-> "txt"]
Obj(d) == [t |-> "obj", v |-> d]

\* what a match that starts or ends inside an object holds of that object:
\* a part of one of its strings, or a part of its text that crosses a quote
Chars(s) == [t |-> "chars", v |-> s]
Frag == [t |-> "frag"]

TargetSize == 20

\* the order of the keys of an article
ObjectKeys == <<"url", "title", "excerpt", "source", "category", "published_date",
                "is_bookmark", "priority", "matched_topic">>

key_rank(k) ==
    IF \E n \in DOMAIN ObjectKeys : ObjectKeys[n] = k
    THEN CHOOSE n \in DOMAIN ObjectKeys : ObjectKeys[n] = k
    ELSE Len(ObjectKeys) + 1

\* the characters of a value of an object that is a string; the values are
\* strings, numbers, booleans or None
chars_of(v) ==
    IF kind(v) = "text" THEN [n \in 1..Len(v) |-> SubSeq(v, n, n)]
    ELSE IF kind(v) = "list" /\ ~is_none(v) THEN v
    ELSE <<>>

\* where the characters of the set cs stand in the text: <<token, 0, 0, "">>
\* for a bracket token, <<token, rank of the key, place in the string, key>>
\* inside an object
positions(text, cs) ==
    {<<i, 0, 0, "">> : i \in {j \in DOMAIN text : text[j].t \in cs}}
    \cup UNION { UNION { LET chars == chars_of(text[i].v[k])
                         IN  {<<i, key_rank(k), n, k>> :
                                 n \in {m \in DOMAIN chars : chars[m] \in cs}} :
                         k \in DOMAIN text[i].v } :
                 i \in {j \in DOMAIN text : text[j].t = "obj"} }

\* p stands before q in the text
before(p, q) ==
    \/ p[1] < q[1]
    \/ p[1] = q[1] /\ p[2] < q[2]
    \/ p[1] = q[1] /\ p[2] = q[2] /\ p[3] < q[3]

\* re.search(r'\[[\s\S]*\]', response_text): from the first "[" to the last
\* "]" after it (the star is greedy), wherever the two stand
re_search(text) ==
    LET none == [found |-> FALSE, group |-> <<>>]
        group(p, q) ==
            IF p[2] = 0 /\ q[2] = 0 THEN SubSeq(text, p[1], q[1])
            ELSE IF p[1] = q[1] /\ p[4] = q[4]
            THEN <<Chars(SubSeq(chars_of(text[p[1]].v[p[4]]), p[3], q[3]))>>
            ELSE IF p[1] = q[1] THEN <<Frag>>
            ELSE (IF p[2] = 0 THEN <<Open>> ELSE <<Frag>>)
                 \o SubSeq(text, p[1] + 1, q[1] - 1)
                 \o (IF q[2] = 0 THEN <<Close>> ELSE <<Frag>>)
        match(p, q) ==
            IF before(p, q) THEN [found |-> TRUE, group |-> group(p, q)] ELSE none
        search(opens, closes) ==
            IF opens = {} \/ closes = {} THEN none
            ELSE match(CHOOSE a \in opens : \A b \in opens : a = b \/ before(a, b),
                       CHOOSE a \in closes : \A b \in closes : a = b \/ before(b, a))
        char_at(p) ==
            IF p[2] = 0 THEN text[p[1]].t ELSE chars_of(text[p[1]].v[p[4]])[p[3]]
        brackets(all) == search({p \in all : char_at(p) = "["},
                                {p \in all : char_at(p) = "]"})
    IN  brackets(positions(text, {"[", "]"}))

\* json.loads on tokens: a value is an object or "[" value* "]"; a nested
\* array is returned as [array |-> its values]. A Frag is not JSON: the
\* object it is cut from leaves a quote without its pair, and what follows
\* the next quote is a key
RECURSIVE json_value(_, _), json_elements(_, _, _)
json_value(toks, i) ==
    IF i > Len(toks) THEN [ok |-> FALSE]
    ELSE IF toks[i].t = "obj" THEN [ok |-> TRUE, val |-> toks[i].v, next |-> i + 1]
    ELSE IF toks[i].t = "[" THEN json_elements(toks, i + 1, <<>>)
    ELSE [ok |-> FALSE]
json_elements(toks, i, acc) ==
    IF i > Len(toks) THEN [ok |-> FALSE]
    ELSE IF toks[i].t = "]" THEN [ok |-> TRUE, val |-> [array |-> acc], next |-> i + 1]
    ELSE LET r == json_value(toks, i)
         IN  IF r.ok THEN json_elements(toks, r.next, Append(acc, r.val))
             ELSE [ok |-> FALSE]

\* the characters from i on start with the literal
starts_with(s, i, literal) ==
    /\ i + Len(literal) - 1 <= Len(s)
    /\ SubSeq(s, i, i + Len(literal) - 1) = literal

\* json.loads on the characters of a part of one string. The part holds no
\* quote, no backslash and no control character as such (they are escaped in
\* the text, and a backslash is not JSON), so a value is a number, true,
\* false, null, NaN, Infinity, the object without keys (a key is a string,
\* which starts with a quote) or an array of values, with spaces around them.
\* An int is returned as itself, any other number as [float |-> its text].
json_chars(s) ==
    LET bad == [ok |-> FALSE]
        digit(i) == i <= Len(s) /\ \E n \in DOMAIN Digits : Digits[n] = s[i]
        RECURSIVE skip(_), digits_end(_), int_of(_), value(_), elements(_, _)
        skip(i) == IF i <= Len(s) /\ s[i] = " " THEN skip(i + 1) ELSE i
        digits_end(i) == IF digit(i) THEN digits_end(i + 1) ELSE i
        int_of(digits) ==
            IF digits = <<>> THEN 0
            ELSE int_of(SubSeq(digits, 1, Len(digits) - 1)) * 10
                 + ((CHOOSE n \in DOMAIN Digits : Digits[n] = digits[Len(digits)]) - 1)
        \* a number from i to d - 1: sign up to a, integer part up to b
        number_value(i, a, b, d) ==
            IF a # i /\ starts_with(s, a, <<"I","n","f","i","n","i","t","y">>)
            THEN [ok |-> TRUE, val |-> [float |-> SubSeq(s, i, a + 7)], next |-> a + 8]
            ELSE IF ~digit(a) THEN bad
            ELSE [ok |-> TRUE,
                  val |-> IF d # b THEN [float |-> SubSeq(s, i, d - 1)]
                          ELSE IF a # i THEN 0 - int_of(SubSeq(s, a, b - 1))
                          ELSE int_of(SubSeq(s, a, b - 1)),
                  next |-> d]
        exponent(i, a, b, c, d0) ==
            number_value(i, a, b, IF c <= Len(s) /\ s[c] \in {"e", "E"} /\ digit(d0)
                                  THEN digits_end(d0) ELSE c)
        fraction(i, a, b, c) ==
            exponent(i, a, b, c, IF c + 1 <= Len(s) /\ s[c + 1] \in {"+", "-"}
                                 THEN c + 2 ELSE c + 1)
        integer(i, a, b) ==
            fraction(i, a, b, IF b <= Len(s) /\ s[b] = "." /\ digit(b + 1)
                              THEN digits_end(b + 1) ELSE b)
        unsigned(i, a) == integer(i, a, IF s[a] = "0" THEN a + 1 ELSE digits_end(a))
        number(i) == unsigned(i, IF s[i] = "-" THEN i + 1 ELSE i)
        \* the array opened before j, whose first value or "]" stands at j
        array(j) ==
            IF j <= Len(s) /\ s[j] = "]"
            THEN [ok |-> TRUE, val |-> [array |-> <<>>], next |-> j + 1]
            ELSE elements(j, <<>>)
        \* the object opened before j: "}" stands at j, or a key would
        object(j) ==
            IF j <= Len(s) /\ s[j] = "}"
            THEN [ok |-> TRUE, val |-> EmptyDict, next |-> j + 1]
            ELSE bad
        value(i) ==
            IF i > Len(s) THEN bad
            ELSE IF s[i] = "[" THEN array(skip(i + 1))
            ELSE IF s[i] = "{" THEN object(skip(i + 1))
            ELSE IF s[i] = "-" \/ digit(i) THEN number(i)
            ELSE IF starts_with(s, i, <<"t","r","u","e">>)
            THEN [ok |-> TRUE, val |-> TRUE, next |-> i + 4]
            ELSE IF starts_with(s, i, <<"f","a","l","s","e">>)
            THEN [ok |-> TRUE, val |-> FALSE, next |-> i + 5]
            ELSE IF starts_with(s, i, <<"n","u","l","l">>)
            THEN [ok |-> TRUE, val |-> None, next |-> i + 4]
            ELSE IF starts_with(s, i, <<"N","a","N">>)
            THEN [ok |-> TRUE, val |-> [float |-> SubSeq(s, i, i + 2)], next |-> i + 3]
            ELSE IF starts_with(s, i, <<"I","n","f","i","n","i","t","y">>)
            THEN [ok |-> TRUE, val |-> [float |-> SubSeq(s, i, i + 7)], next |-> i + 8]
            ELSE bad
        \* after the value r of an array: a comma and the next value, or "]"
        separator(r, k, acc) ==
            IF k > Len(s) THEN bad
            ELSE IF s[k] = "," THEN elements(skip(k + 1), Append(acc, r.val))
            ELSE IF s[k] = "]"
            THEN [ok |-> TRUE, val |-> [array |-> Append(acc, r.val)], next |-> k + 1]
            ELSE bad
        after_value(r, acc) == IF r.ok THEN separator(r, skip(r.next), acc) ELSE bad
        elements(i, acc) == after_value(value(i), acc)
    IN  value(1)

\* json.loads(json_match.group()): the group starts with "[", so what is
\* loaded is an array
json_loads(toks) ==
    LET loaded(r, end) ==
            IF r.ok /\ r.next = end /\ kind(r.val) = "dict" /\ "array" \in DOMAIN r.val
            THEN [ok |-> TRUE, val |-> r.val.array]
            ELSE [ok |-> FALSE, val |-> <<>>]
    IN  IF Len(toks) = 1 /\ toks[1].t = "chars"
        THEN loaded(json_chars(toks[1].v), Len(toks[1].v) + 1)
        ELSE loaded(json_value(toks, 1), Len(toks) + 1)

first_20_all(articles) == articles
\* articles[:20]
first_20(articles) == SubSeq(articles, 1, Min(TargetSize, Len(articles)))

\* lines 163-187: the array found in the response, else the first 20 articles
analyze_articles(articles, text) ==
    LET selected(parsed) == IF parsed.ok THEN parsed.val ELSE first_20(articles)
        analyzed(json_match) ==
            IF json_match.found THEN selected(json_loads(json_match.group))
            ELSE first_20(articles)
    IN  analyzed(re_search(text))

(***************************************************************************)
(* publish_newsletter and run_workflow (src/main.py)                       *)
(*                                                                         *)
(* The publishing agent's response text is a sequence of Txt and Url(s),   *)
(* s a match of the pattern https?://[^\s<>"]+ .                           *)
(***************************************************************************)

Url(s) == [t |-> "url", s |-> s]

\* sub in s
contains(s, sub) ==
    \E i \in 1..(Len(s) - Len(sub) + 1) : SubSeq(s, i, i + Len(sub) - 1) = sub

\* re.findall(url_pattern, response_text)
find_urls(text) ==
    LET found == SelectSeq(text, LAMBDA tok : tok.t = "url")
    IN  [i \in 1..Len(found) |-> found[i].s]

WpAdmin == <<"w", "p", "-", "a", "d", "m", "i", "n">>
ActionEdit == <<"a", "c", "t", "i", "o", "n", "=", "e", "d", "i", "t">>

\* lines 372-377: the last admin url is the edit url, the first other url
\* the post url
RECURSIVE scan_urls(_, _, _)
scan_urls(urls, post_url, edit_url) ==
    IF urls = <<>> THEN [post_url |-> post_url, edit_url |-> edit_url]
    ELSE LET url == Head(urls)
         IN  IF contains(url, WpAdmin) \/ contains(url, ActionEdit)
             THEN scan_urls(Tail(urls), post_url, url)
             ELSE IF post_url = None
             THEN scan_urls(Tail(urls), url, edit_url)
             ELSE scan_urls(Tail(urls), post_url, edit_url)

\* lines 365-387: the result publish_newsletter returns for a response
publish_result(text, tool_calls) ==
    LET found == scan_urls(find_urls(text), None, None)
    IN  [success |-> found.post_url # None \/ found.edit_url # None,
         post_url |-> found.post_url,
         edit_url |-> found.edit_url,
         tool_calls |-> tool_calls]

DraftPath == <<"n", "e", "w", "s", "l", "e", "t", "t", "e", "r", "_",
               "d", "r", "a", "f", "t", ".", "h", "t", "m", "l">>

\* lines 436-446: the RunResponse of a run that reached the end
run_response(discovered, analyzed, publication) ==
    [status |-> "success",
     articles_found |-> Len(discovered),
     message |-> [articles_analyzed |-> Len(analyzed)],
     summary_url |-> py_or(publication.post_url, py_or(publication.edit_url, DraftPath)),
     tool_calls_made |-> publication.tool_calls]

RunError(step) == [status |-> "error", step |-> step]

NoPrompt == [to |-> "nobody"]

\* write_newsletter lines 201-221: the prompt handed to the writing agent
write_prompt_first(articles) ==
    [to |-> "writer", count |-> Len(articles),
     articles |-> SubSeq(articles, 1, Min(1, Len(articles)))]
write_prompt(articles) ==
    [to |-> "writer", count |-> Len(articles), articles |-> articles]

\* the characters of s from position i on begin with those of lit, whatever
\* the case of the letters (re.IGNORECASE)
matches_at(s, i, lit) ==
    /\ i + Len(lit) - 1 <= Len(s)
    /\ \A k \in DOMAIN lit : char_lower(s[i + k - 1]) = char_lower(lit[k])

\* the least of a set of positions, 0 if there is none
first_of(places) ==
    IF places = {} THEN 0
    ELSE CHOOSE k \in places : \A l \in places : k <= l

\* the first position from i on where s holds the character c, 0 if none
index_from(s, c, i) == first_of({k \in i..Len(s) : s[k] = c})

\* re.search(r'<p[^>]*>(.+?)</p>', newsletter_html, re.IGNORECASE), line 300:
\* the leftmost "<p" whose tag, which runs to the next ">" ([^>] takes any
\* other character, a newline too), is followed by one character or more,
\* none of them a newline ("." does not match it), and then by "</p>"; the
\* group is the shortest such run of characters
first_paragraph(html) ==
    LET \* where the tag of the "<p" at i ends, 0 if it does not
        tag_end(i) == index_from(html, ">", i + 2)
        \* where the "</p>" of the group that begins at g is, 0 if none
        close_from(g) ==
            first_of({m \in (g + 1)..Len(html) :
                          /\ matches_at(html, m, <<"<", "/", "p", ">">>)
                          /\ \A l \in g..(m - 1) : html[l] # "\n"})
        \* the positions the pattern matches from
        matches == {i \in DOMAIN html :
                        /\ matches_at(html, i, <<"<", "p">>)
                        /\ tag_end(i) # 0
                        /\ close_from(tag_end(i) + 1) # 0}
        matched(i) ==
            [found |-> TRUE,
             group |-> SubSeq(html, tag_end(i) + 1, close_from(tag_end(i) + 1) - 1)]
    IN  IF matches = {} THEN [found |-> FALSE, group |-> <<>>]
        ELSE matched(first_of(matches))

\* re.sub(r'<[^>]+>', '', excerpt), line 303: every "<", one character or
\* more that is not ">", and ">" goes, the leftmost first and then those of
\* what follows it
RECURSIVE strip_tags(_)
strip_tags(s) ==
    LET \* the first position the pattern matches from, 0 if none
        tag == first_of({i \in DOMAIN s :
                             s[i] = "<" /\ index_from(s, ">", i + 1) > i + 1})
        without(i) ==
            SubSeq(s, 1, i - 1)
            \o strip_tags(SubSeq(s, index_from(s, ">", i + 1) + 1, Len(s)))
    IN  IF tag = 0 THEN s ELSE without(tag)

\* str(n) of a natural number
RECURSIVE str_of_int(_)
str_of_int(n) ==
    IF n < 10 THEN <<Digits[n + 1]>>
    ELSE str_of_int(n \div 10) \o <<Digits[(n % 10) + 1]>>

\* date_formatter.format_newsletter_date() for the date the clock gives:
\* strftime("%B <day><suffix>, %Y")
format_newsletter_date(date) ==
    LET day == date.day
        suffix == IF 10 <= day % 100 /\ day % 100 <= 20 THEN <<"t", "h">>
                  ELSE IF day % 10 = 1 THEN <<"s", "t">>
                  ELSE IF day % 10 = 2 THEN <<"n", "d">>
                  ELSE IF day % 10 = 3 THEN <<"r", "d">>
                  ELSE <<"t", "h">>
    IN  date.month_name \o <<" ">> \o str_of_int(day) \o suffix
        \o <<",", " ">> \o str_of_int(date.year)

\* RunRequest.newsletter_date of a request that names no date
PlaceholderDate == <<"s", "t", "r", "i", "n", "g">>

\* lines 296-297: the placeholder date "string" stands for today's date
formatted_date(newsletter_date, now) ==
    IF newsletter_date = PlaceholderDate THEN format_newsletter_date(now)
    ELSE newsletter_date

ExcerptLen == 200

WeeklyNewsletterFor ==
    <<"W", "e", "e", "k", "l", "y", " ", "n", "e", "w", "s", "l", "e", "t", "t", "e", "r",
      " ", "f", "o", "r", " ">>

\* lines 300-305: the first paragraph without its tags, stripped and cut to
\* 200 characters, or a line naming the date
excerpt_of(html, date) ==
    LET excerpt_match == first_paragraph(html)
        limited(excerpt) == SubSeq(excerpt, 1, Min(ExcerptLen, Len(excerpt)))
    IN  IF excerpt_match.found
        THEN limited(str_strip(strip_tags(excerpt_match.group)))
        ELSE WeeklyNewsletterFor \o date

PrivateStatus == "private"
WeeklySummary == <<"W", "e", "e", "k", "l", "y", "S", "u", "m", "m", "a", "r", "y">>

MarksWeeklyUpdate ==
    <<"M", "a", "r", "k", "'", "s", " ", "W", "e", "e", "k", "l", "y", " ",
      "U", "p", "d", "a", "t", "e", ":", " ">>

\* publish_newsletter lines 298 and 307-319: the prompt handed to the
\* publishing agent, by the values its template is filled with
publish_prompt_public(newsletter_html, newsletter_date, now) ==
    [to |-> "publisher",
     title |-> MarksWeeklyUpdate \o formatted_date(newsletter_date, now),
     content |-> newsletter_html,
     status |-> "publish",
     categories |-> <<WeeklySummary>>,
     excerpt |-> excerpt_of(newsletter_html, formatted_date(newsletter_date, now))]
publish_prompt(newsletter_html, newsletter_date, now) ==
    [to |-> "publisher",
     title |-> MarksWeeklyUpdate \o formatted_date(newsletter_date, now),
     content |-> newsletter_html,
     status |-> PrivateStatus,
     categories |-> <<WeeklySummary>>,
     excerpt |-> excerpt_of(newsletter_html, formatted_date(newsletter_date, now))]

(***************************************************************************)
(* WordPressTool (src/tools/wordpress_tool.py)                             *)
(*                                                                         *)
(* args are the keyword arguments of run(); an argument left out takes its *)
(* default. env is what the site answers: env.lookups[i] for the i-th      *)
(* category name, env.post for the request that creates the post.          *)
(***************************************************************************)

\* self.site_url, after rstrip("/")
SiteUrl == <<"h", "t", "t", "p", "s", ":", "/", "/", "s">>

PostPhp == <<"/">> \o WpAdmin \o <<"/", "p", "o", "s", "t", ".", "p", "h", "p", "?",
                                    "p", "o", "s", "t", "=">>

\* f"{self.site_url}/wp-admin/post.php?post={post_id}&action=edit"
edit_url_without_id(post_id) ==
    SiteUrl \o PostPhp \o <<"&">> \o ActionEdit
edit_url_of(post_id) ==
    SiteUrl \o PostPhp \o str_of_int(post_id) \o <<"&">> \o ActionEdit

\* line 243: the search found the category
category_found(name, lookup) ==
    /\ lookup.search = "ok"
    /\ lookup.found # <<>>
    /\ str_lower(lookup.found[1].name) = str_lower(name)

\* the requests _get_or_create_categories sends, up to the one that raises
\* out of it
RECURSIVE category_requests(_, _, _)
category_requests(category_names, lookups, i) ==
    IF i > Len(category_names) THEN <<>>
    ELSE LET name == category_names[i]
             search == [method |-> "GET", name |-> name]
         IN  IF lookups[i].search = "raises" THEN <<search>>
             ELSE IF category_found(name, lookups[i])
             THEN <<search>> \o category_requests(category_names, lookups, i + 1)
             ELSE <<search, [method |-> "POST", name |-> name]>>
                  \o category_requests(category_names, lookups, i + 1)

RECURSIVE _get_or_create_categories_stop(_, _, _)
_get_or_create_categories_stop(category_names, lookups, i) ==
    IF i > Len(category_names) THEN [raised |-> FALSE, ids |-> <<>>]
    ELSE LET name == category_names[i]
             lookup == lookups[i]
             rest == _get_or_create_categories_stop(category_names, lookups, i + 1)
             with(id) == IF rest.raised THEN rest
                         ELSE [raised |-> FALSE, ids |-> <<id>> \o rest.ids]
         IN  IF lookup.search = "raises" THEN [raised |-> TRUE, error |-> lookup.error]
             ELSE IF category_found(name, lookup) THEN with(lookup.found[1].id)
             ELSE IF lookup.create = "ok" THEN with(lookup.created)
             ELSE [raised |-> FALSE, ids |-> <<>>]
\* _get_or_create_categories: the ids found or created, in order; an
\* exception of the search request is not caught here
RECURSIVE _get_or_create_categories(_, _, _)
_get_or_create_categories(category_names, lookups, i) ==
    IF i > Len(category_names) THEN [raised |-> FALSE, ids |-> <<>>]
    ELSE LET name == category_names[i]
             lookup == lookups[i]
             rest == _get_or_create_categories(category_names, lookups, i + 1)
             with(id) == IF rest.raised THEN rest
                         ELSE [raised |-> FALSE, ids |-> <<id>> \o rest.ids]
         IN  IF lookup.search = "raises" THEN [raised |-> TRUE, error |-> lookup.error]
             ELSE IF category_found(name, lookup) THEN with(lookup.found[1].id)
             ELSE IF lookup.create = "ok" THEN with(lookup.created)
             ELSE rest

\* the status run() works with: its parameter, "private" by default
status_of(args) == get(args, "status", "private")

\* lines 117-128: the JSON body of the request that creates the post; the
\* excerpt and the featured media are put in when they are given and true
\* (both parameters are None by default, and run_async passes None for them)
post_data(args, category_ids) ==
    LET base == [title |-> args.title, content |-> args.content,
                 status |-> status_of(args), categories |-> category_ids]
        excerpt == get(args, "excerpt", None)
        featured_media_id == get(args, "featured_media_id", None)
        with_excerpt == IF truthy(excerpt)
                        THEN [k \in DOMAIN base \cup {"excerpt"} |->
                                  IF k = "excerpt" THEN excerpt ELSE base[k]]
                        ELSE base
    IN  IF truthy(featured_media_id)
        THEN [k \in DOMAIN with_excerpt \cup {"featured_media"} |->
                  IF k = "featured_media" THEN featured_media_id ELSE with_excerpt[k]]
        ELSE with_excerpt

\* lines 111-115
category_ids_of(args, env) ==
    LET categories == get(args, "categories", None)
    IN  IF truthy(categories) THEN _get_or_create_categories(categories, env.lookups, 1)
        ELSE [raised |-> FALSE, ids |-> <<>>]

\* the requests run() sends to the posts endpoint
WordPressTool_sent(args, env) ==
    LET resolved == category_ids_of(args, env)
    IN  IF resolved.raised THEN <<>> ELSE <<post_data(args, resolved.ids)>>

\* lines 145-155: the result for an HTTPError
http_error_result(post) ==
    [success |-> FALSE,
     error |-> IF post.body_is_json
               THEN [text |-> "HTTP error: ", status_code |-> post.status_code,
                     message |-> get(post.body, "message", "")]
               ELSE [text |-> "HTTP error: ", status_code |-> post.status_code]]

\* lines 157-162: the result for any other exception
exception_result(error) == [success |-> FALSE, error |-> [text |-> error]]

\* WordPressTool.run
WordPressTool_run(args, env) ==
    LET resolved == category_ids_of(args, env)
        post == env.post
    IN  IF resolved.raised THEN exception_result(resolved.error)
        ELSE IF post.outcome = "raises" THEN exception_result(post.error)
        ELSE IF post.outcome = "http_error" THEN http_error_result(post)
        ELSE IF ~post.body_is_json THEN exception_result("Expecting value")
        ELSE IF "id" \notin DOMAIN post.body THEN exception_result("'id'")
        ELSE IF "link" \notin DOMAIN post.body THEN exception_result("'link'")
        ELSE [success |-> TRUE,
              post_id |-> post.body.id,
              post_url |-> post.body.link,
              edit_url |-> edit_url_of(post.body.id),
              status |-> status_of(args)]

(***************************************************************************)
(* WebScraperTool (src/tools/web_scraper_tool.py)                          *)
(*                                                                         *)
(* args are the keyword arguments of run(). env is what the network gives: *)
(* env.head for the HEAD request of the detection, env.feed for            *)
(* feedparser.parse, env.page for the download and parse of the page.      *)
(***************************************************************************)

RssIndicators ==
    { <<"/", "f", "e", "e", "d">>, <<"/", "r", "s", "s">>, <<"/", "a", "t", "o", "m">>,
      <<".", "x", "m", "l">> }

RssTypes == { <<"x", "m", "l">>, <<"r", "s", "s">>, <<"a", "t", "o", "m">>,
              <<"f", "e", "e", "d">> }

\* _detect_content_type: url.lower() raises for a url that is not a str; an
\* exception of the HEAD request is swallowed
_detect_content_type(url, env) ==
    IF url = None THEN [raised |-> TRUE, error |-> "object has no attribute 'lower'"]
    ELSE IF \E indicator \in RssIndicators : contains(str_lower(url), indicator)
    THEN [raised |-> FALSE, mode |-> "rss"]
    ELSE IF /\ env.head.outcome = "ok"
            /\ \E rss_type \in RssTypes :
                   contains(str_lower(get(env.head, "content_type", <<>>)), rss_type)
    THEN [raised |-> FALSE, mode |-> "rss"]
    ELSE [raised |-> FALSE, mode |-> "html"]

\* lines 170-196: the dict built for one entry of the feed
feed_entry(entry) ==
    [title |-> get(entry, "title", <<>>),
     link |-> get(entry, "link", <<>>),
     content |-> IF "content" \in DOMAIN entry THEN entry.content[1].value
                 ELSE get(entry, "description", None),
     summary |-> get(entry, "summary", None),
     author |-> get(entry, "author", <<>>),
     published_date |-> IF "published" \in DOMAIN entry THEN entry.published
                        ELSE get(entry, "updated", None)]

_parse_rss_feed(url, env) ==
    IF env.feed.outcome = "raises" THEN [raised |-> TRUE, error |-> env.feed.error]
    ELSE LET entries == [i \in DOMAIN env.feed.entries |-> feed_entry(env.feed.entries[i])]
         IN  [raised |-> FALSE,
              result |-> [success |-> TRUE, url |-> url, type |-> "rss",
                          title |-> get(env.feed, "title", <<>>),
                          description |-> get(env.feed, "description", <<>>),
                          entries |-> entries,
                          entry_count |-> Len(entries)]]

\* ", ".join(authors)
RECURSIVE join_authors(_)
join_authors(authors) ==
    IF Len(authors) = 0 THEN <<>>
    ELSE IF Len(authors) = 1 THEN authors[1]
    ELSE authors[1] \o <<",", " ">> \o join_authors(Tail(authors))

SummaryLen == 500

\* the decimal digits of n, with zeros before them up to the width
zero_padded(n, width) ==
    LET digits == str_of_int(n)
    IN  [i \in 1..(width - Len(digits)) |-> "0"] \o digits

\* datetime.isoformat(). A datetime is the record of its attributes year,
\* month, day, hour, minute, second and microsecond, and of utcoffset, in
\* minutes, when it has a time zone
isoformat(d) ==
    LET offset == IF d.utcoffset < 0 THEN 0 - d.utcoffset ELSE d.utcoffset
    IN  zero_padded(d.year, 4) \o <<"-">> \o zero_padded(d.month, 2) \o <<"-">>
        \o zero_padded(d.day, 2) \o <<"T">> \o zero_padded(d.hour, 2) \o <<":">>
        \o zero_padded(d.minute, 2) \o <<":">> \o zero_padded(d.second, 2)
        \o (IF d.microsecond # 0 THEN <<".">> \o zero_padded(d.microsecond, 6) ELSE <<>>)
        \o (IF "utcoffset" \in DOMAIN d
            THEN <<IF d.utcoffset < 0 THEN "-" ELSE "+">>
                 \o zero_padded(offset \div 60, 2) \o <<":">> \o zero_padded(offset % 60, 2)
            ELSE <<>>)

\* isinstance(x, datetime)
is_datetime(x) == kind(x) = "dict" /\ "year" \in DOMAIN x

\* lines 237-239: article.publish_date.isoformat() if article.publish_date
\* else None; a date that is true and has no isoformat raises
published_date_of(publish_date) ==
    IF falsy(publish_date) THEN Returned(None)
    ELSE IF is_datetime(publish_date) THEN Returned(isoformat(publish_date))
    ELSE Raised("object has no attribute 'isoformat'")

\* article is what newspaper's Article holds after download() and parse():
\* publish_date is None, '' or a datetime
_parse_html_page(url, extract_links, env) ==
    IF env.page.outcome = "raises" THEN [raised |-> TRUE, error |-> env.page.error]
    ELSE LET article == env.page.article
             dated(published_date) ==
                 LET result == [success |-> TRUE, url |-> url, type |-> "html",
                                title |-> article.title,
                                content |-> article.text,
                                summary |-> py_or(article.meta_description,
                                                  SubSeq(article.text, 1,
                                                         Min(SummaryLen, Len(article.text)))),
                                author |-> IF truthy(article.authors)
                                           THEN join_authors(article.authors) ELSE None,
                                published_date |-> published_date.val,
                                top_image |-> article.top_image,
                                images |-> article.images]
                 IN  IF published_date.raised
                     THEN [raised |-> TRUE, error |-> published_date.error]
                     ELSE [raised |-> FALSE,
                           result |-> IF extract_links
                                      THEN [k \in DOMAIN result \cup {"links"} |->
                                                IF k = "links" THEN article.links
                                                ELSE result[k]]
                                      ELSE result]
         IN  dated(published_date_of(article.publish_date))

\* lines 89-91: the mode after the detection
detected_mode(args, env) ==
    IF get(args, "mode", "auto") = "auto"
    THEN _detect_content_type(args.url, env)
    ELSE [raised |-> FALSE, mode |-> args.mode]

\* lines 93-96: the parser run() calls for a mode
parser_for_known(mode) == IF mode = "html" THEN "_parse_html_page" ELSE "_parse_rss_feed"
parser_for(mode) == IF mode = "rss" THEN "_parse_rss_feed" ELSE "_parse_html_page"

\* the methods run() calls, in order
WebScraperTool_steps(args, env) ==
    LET detect == IF get(args, "mode", "auto") = "auto"
                  THEN <<"_detect_content_type">> ELSE <<>>
        detected == detected_mode(args, env)
    IN  IF detected.raised THEN detect ELSE Append(detect, parser_for(detected.mode))

\* lines 98-104: the result for an exception
scraper_error_result(url, error) == [success |-> FALSE, url |-> url, error |-> error]

\* WebScraperTool.run
WebScraperTool_run(args, env) ==
    LET detected == detected_mode(args, env)
    IN  IF detected.raised THEN scraper_error_result(args.url, detected.error)
        ELSE LET parsed == IF parser_for(detected.mode) = "_parse_rss_feed"
                           THEN _parse_rss_feed(args.url, env)
                           ELSE _parse_html_page(args.url,
                                                 get(args, "extract_links", FALSE), env)
             IN  IF parsed.raised THEN scraper_error_result(args.url, parsed.error)
                 ELSE parsed.result

(***************************************************************************)
(* The ledger driven through its public methods                            *)
(***************************************************************************)

MaxPad == 1        \* most spaces around a url passed to the ledger
MaxAdds == 2       \* distinct raw urls passed to add_processed_url
MaxList == 2       \* longest list passed to get_unprocessed_urls

Spaces(n) == [i \in 1..n |-> " "]

Cores == {<<>>, <<"a">>, <<"A">>}

\* the urls passed to the ledger: a core with spaces before and after it
LedgerUrls ==
    {Spaces(pad[1]) \o core \o Spaces(pad[2]) :
        core \in Cores,
        pad \in {q \in (0..MaxPad) \X (0..MaxPad) : q[1] + q[2] <= MaxPad}}
    \cup { <<"", "a", " ">>, <<"É">> }   \* a vertical tab before, a no-break space after
    \* and a capital str.lower() changes outside A..Z

RECURSIVE ListsUpTo(_, _)
ListsUpTo(S, n) ==
    IF n = 0 THEN {<<>>}
    ELSE LET shorter == ListsUpTo(S, n - 1)
         IN  shorter \cup {Append(l, x) : l \in shorter, x \in S}

\* the urls the lists handed to get_unprocessed_urls are made of
ListUrls == {<<"a">>, <<"A", " ">>, <<" ">>}

UrlLists == ListsUpTo(ListUrls, MaxList)

NoCall == [op |-> "none"]
NoResult == [status |-> "none"]

AddProcessedUrl ==
    \E url \in LedgerUrls :
        /\ Cardinality(recorded \cup {url}) <= MaxAdds
        /\ processed_urls' = add_processed_url(processed_urls, url)
        /\ recorded' = recorded \cup {url}
        /\ ret' = [op |-> "add_processed_url", url |-> url, before |-> processed_urls]
        /\ UNCHANGED <<session_ttl_days, scraperVars, runVars, calls, tool_call>>

IsProcessed ==
    \E url \in LedgerUrls :
        /\ ret' = [op |-> "is_processed", url |-> url,
                   val |-> is_processed(processed_urls, url)]
        /\ UNCHANGED <<processed_urls, session_ttl_days, recorded, scraperVars, runVars,
                   calls, tool_call>>

GetUnprocessedUrls ==
    \E list \in UrlLists :
        /\ ret' = [op |-> "get_unprocessed_urls", urls |-> list,
                   val |-> get_unprocessed_urls(processed_urls, list)]
        /\ UNCHANGED <<processed_urls, session_ttl_days, recorded, scraperVars, runVars,
                   calls, tool_call>>

GetProcessedCount ==
    /\ ret' = [op |-> "get_processed_count", val |-> get_processed_count(processed_urls)]
    /\ UNCHANGED <<processed_urls, session_ttl_days, recorded, scraperVars, runVars,
                   calls, tool_call>>

ClearOldEntries ==
    /\ processed_urls' = clear_old_entries_state(processed_urls)
    /\ ret' = [op |-> "clear_old_entries", val |-> clear_old_entries_result(processed_urls),
               before |-> processed_urls]
    /\ UNCHANGED <<session_ttl_days, recorded, scraperVars, runVars, calls, tool_call>>

\* list(set): the elements of S once each, in any order
list_of(S) ==
    {l \in ListsUpTo(S, Cardinality(S)) :
        Len(l) = Cardinality(S) /\ {l[i] : i \in DOMAIN l} = S}

Timestamps == {"2025-12-01T08:00:00", "2025-12-08T08:00:00"}

SaveState ==
    \E url_list \in list_of(processed_urls), timestamp \in Timestamps :
        /\ ret' = [op |-> "save_state",
                   val |-> save_state(url_list, timestamp, session_ttl_days)]
        /\ UNCHANGED <<processed_urls, session_ttl_days, recorded, scraperVars, runVars,
                       calls, tool_call>>

\* the dicts passed to load_state: written by hand, with or without either
\* key, or the one save_state returned last
LedgerStates ==
    {EmptyDict}
    \cup {[processed_urls |-> l] : l \in UrlLists}
    \cup {[processed_urls |-> l, timestamp |-> t, ttl_days |-> 14] :
              l \in UrlLists, t \in Timestamps}
    \cup {[ttl_days |-> 30]}
    \cup (IF ret.op = "save_state" THEN {ret.val} ELSE {})

LoadState ==
    \E state \in LedgerStates :
        /\ processed_urls' = load_state_urls(processed_urls, state)
        /\ session_ttl_days' = load_state_ttl(session_ttl_days, state)
        /\ ret' = [op |-> "load_state", state |-> state]
        /\ UNCHANGED <<recorded, scraperVars, runVars, calls, tool_call>>

(***************************************************************************)
(* Discovery in one process: mark_as_processed fills the ledger,           *)
(* news_scraper.main reads it                                              *)
(***************************************************************************)

\* a file that does not exist, one holding the list `content`, and one
\* holding the first part of the JSON text of a list, which is not JSON
NoFile == [exists |-> FALSE, content |-> <<>>]
File(content) == [exists |-> TRUE, content |-> content]
Truncated == [exists |-> TRUE, truncated |-> TRUE]

\* lines 105-106: the file after main(): open() empties it and json.dump
\* writes the text piece by piece until it raises
dumped_file(outcome, file) ==
    IF ~outcome.opened THEN file
    ELSE IF outcome.raised THEN Truncated
    ELSE File(outcome.val)

\* news_scraper.main has not run
NoInput == [news_config |-> EmptyDict, results |-> <<>>,
            bookmark_file |-> [state |-> "missing", gcs |-> FALSE], ledger |-> {},
            raised |-> FALSE]

P1 == [url |-> <<"f", "1">>, name |-> "feed1", type |-> "rss"]
P2 == [url |-> <<"f", "2">>, name |-> "feed2"]
P3 == [url |-> <<"p", "3">>, name |-> "page3", type |-> "html"]

\* news_sources.yaml with an empty news_sources key, with a category that
\* has an empty pages key, with three pages, with a page without a name
\* after a good one, empty, with a category that holds nothing, and with a
\* page that is a str before one without a name
NewsConfigs ==
    << [news_sources |-> None],
       [news_sources |-> Mapping(<<[key |-> "tech", value |-> [pages |-> None]],
                                   [key |-> "ai", value |-> [pages |-> <<P1>>]]>>)],
       [news_sources |-> Mapping(<<[key |-> "tech", value |-> [pages |-> <<P1, P3>>]],
                                   [key |-> "ai", value |-> [pages |-> <<P2>>]]>>)],
       [news_sources |-> Mapping(<<[key |-> "tech",
                                    value |-> [pages |-> <<P1, [url |-> <<"f", "4">>]>>]]>>)],
       None,
       [news_sources |-> Mapping(<<[key |-> "tech", value |-> [pages |-> <<P1>>]],
                                   [key |-> "ai", value |-> None]>>)],
       [news_sources |-> Mapping(<<[key |-> "tech",
                                    value |-> [pages |-> <<[scalar |-> <<"f", "1">>],
                                                           [url |-> <<"f", "4">>]>>]]>>)] >>

\* entries as feedparser gives them: the second has a description and no
\* summary or date, the third an empty title, the fourth no link
E1 == [title |-> <<"T", "1">>, link |-> <<"a">>, summary |-> <<"s">>,
       published |-> <<"2", "0", "2", "5">>]
E2 == [title |-> <<"T", "2">>, link |-> <<"A", " ">>, description |-> <<"c">>]
E3 == [title |-> <<>>, link |-> <<"b">>, summary |-> <<>>,
       published |-> <<"2", "0", "2", "4">>]
E4 == [title |-> <<"T", "4">>, summary |-> <<"s">>]

\* what feedparser.parse gives: an exception, or a feed
Failed == [outcome |-> "raises", error |-> "timeout"]
Feed(entries) == [outcome |-> "ok", title |-> <<"F">>, entries |-> entries]

\* scrape_web_content is imported from src.tools (news_scraper.py line 22)
\* and defined in no file of src/. The specification's Content Fetcher,
\* given a source URL, returns a list of candidate-article records or an
\* error: it is taken to be WebScraperTool.run called with the arguments
\* main passes (url, mode "rss", extract_links False, timeout 30) while the
\* network gives the feed, so a fetch that fails comes back as a value
scrape_web_content(url, feed) ==
    WebScraperTool_run([url |-> url, mode |-> "rss", extract_links |-> FALSE,
                        timeout |-> 30],
                       [feed |-> feed])

Feeds == <<Failed, Feed(<<>>), Feed(<<E1, E3, E2>>), Feed(<<E1, E4, E3>>)>>

\* one feed per source, by its place in Feeds; a source main never fetches
\* gets no choice
RECURSIVE ResultsFor(_)
ResultsFor(sources) ==
    IF sources = <<>> THEN {<<>>}
    ELSE LET first == IF Head(sources).type \in {"rss", "auto"}
                      THEN DOMAIN Feeds ELSE {1}
         IN  {<<r>> \o rest : r \in first, rest \in ResultsFor(Tail(sources))}

B1 == [url |-> <<"a">>, note |-> <<"n">>, submitted_date |-> <<"2", "0", "2", "5">>]
B2 == [url |-> <<"A">>]
NotADict == [scalar |-> <<"x">>]
NoUrl == [missing_url |-> TRUE, note |-> <<"n">>]

BookmarkFile(bookmarks) == [state |-> "ok", data |-> [bookmarks |-> bookmarks]]

\* a bookmark whose note is a YAML set
SetNote == [url |-> <<"b">>, note |-> {<<"x">>}]

BookmarkFiles ==
    << [state |-> "missing"],
       BookmarkFile(<<B2, NotADict, NoUrl, B1>>),
       BookmarkFile(<<B1, SetNote>>) >>

\* a config whose loading raises is never followed by a fetch
SourcesOf(news_config) ==
    IF load_sources(news_config).raised THEN <<>> ELSE load_sources(news_config).val

\* the inputs of main(), each named by the places of its parts in
\* NewsConfigs, Feeds and BookmarkFiles
ScraperInput(choice) ==
    LET fetched(sources) ==
            [i \in DOMAIN choice.results |->
                 scrape_web_content(sources[i].url, Feeds[choice.results[i]])]
    IN  [news_config |-> NewsConfigs[choice.news_config],
         results |-> fetched(SourcesOf(NewsConfigs[choice.news_config])),
         bookmark_file |-> BookmarkFiles[choice.bookmark_file]]

\* a run that raises before it loads the bookmarks is tried with the first
\* bookmark file only
ScraperInputs ==
    { choice \in UNION { [news_config : {c},
                          results : ResultsFor(SourcesOf(NewsConfigs[c])),
                          bookmark_file : DOMAIN BookmarkFiles] :
                             c \in DOMAIN NewsConfigs } :
          ~news_scraper_main(ScraperInput(choice), MemoryManagerInit).opened
              => choice.bookmark_file = 1 }

\* each choice with the input it names
ScraperCases == {<<choice, ScraperInput(choice)>> : choice \in ScraperInputs}

MarkAsProcessed ==
    \E list \in UrlLists :
        /\ processed_urls' = mark_as_processed(processed_urls, list)
        /\ recorded' = recorded \cup {list[i] : i \in 1..Len(list)}
        /\ ret' = [op |-> "mark_as_processed"]
        /\ UNCHANGED <<session_ttl_days, scraperVars, runVars, calls, tool_call>>

\* news_scraper.main() called in this process: it reads this process's
\* ledger; when it raises before line 105, the file is left as it was
NewsScraperMain ==
    \E case \in ScraperCases :
        LET input == case[2]
            outcome == news_scraper_main(input, processed_urls)
        IN  /\ scraper_input' = [news_config |-> input.news_config,
                                 results |-> input.results,
                                 bookmark_file |-> input.bookmark_file,
                                 ledger |-> processed_urls,
                                 raised |-> outcome.raised]
            /\ output_file' = dumped_file(outcome, output_file)
            /\ UNCHANGED <<ledgerVars, runVars, calls, tool_call>>

(***************************************************************************)
(* The selection step called on the pools discovery produces               *)
(***************************************************************************)

FeedSize == 20     \* entries of the long sample feed
MaxPicked == 2     \* longest array in the sample agent responses

LongFeedEntry(i) ==
    [title |-> <<"T">>, link |-> <<"n", Digits[(i \div 10) + 1], Digits[(i % 10) + 1]>>,
     summary |-> <<"s">>, published |-> <<"2", "0", "2", "5">>]

LongFeed == Feed([i \in 1..FeedSize |-> LongFeedEntry(i)])

RunConfig == [news_sources |-> Mapping(<<[key |-> "tech", value |-> [pages |-> <<P1>>]]>>)]

\* what the one source of RunConfig gives when the network gives the feed
Fetched(feed) == <<scrape_web_content(P1.url, feed)>>

\* what the scraper subprocess of a /run request may read
RunInputs ==
    [news_config : {RunConfig},
     results : {Fetched(Failed), Fetched(Feed(<<E2, E1>>)), Fetched(LongFeed)},
     bookmark_file : {[state |-> "missing"], BookmarkFile(<<B2, NotADict, NoUrl, B1>>)}]

\* the scraper run by run_news_scraper is a new process: its ledger is the
\* one MemoryManager() constructs
SubprocessRun(input) == news_scraper_main(input, MemoryManagerInit)

\* an article as the agent may return it: with a priority and a topic
WithScore(a, priority, topic) ==
    [url |-> a.url, title |-> a.title, excerpt |-> a.excerpt, source |-> a.source,
     category |-> a.category, published_date |-> a.published_date,
     is_bookmark |-> a.is_bookmark, priority |-> priority, matched_topic |-> topic]

TopicAI == <<"A", "I">>

\* scored as the agent's instruction asks
Scored(a) == IF a.is_bookmark THEN WithScore(a, 11, None) ELSE WithScore(a, 10, TopicAI)
\* scored against the instruction
Misscored(a) == IF a.is_bookmark THEN WithScore(a, 7, TopicAI) ELSE WithScore(a, 11, None)

\* an article that is in no pool
Invented ==
    [url |-> <<"z">>, title |-> <<"Z">>, is_bookmark |-> FALSE, priority |-> 9,
     matched_topic |-> TopicAI]

AgentItems(pool) ==
    IF pool = <<>> THEN {Invented}
    ELSE {Scored(pool[1]), Misscored(pool[Len(pool)]), Invented}

\* an article of no pool whose title is the given text
Titled(title) == [url |-> <<"z">>, title |-> title, is_bookmark |-> FALSE]

\* the responses the selection agent may give for a pool; the last five hold
\* a bracket inside a string of an object
Responses(pool) ==
    { <<Txt>>, <<Open, Txt, Close>>, <<Open, Close, Txt, Open, Close>>,
      <<Open, Obj(Invented), Close, Txt, Obj(Titled(<<"]">>))>>,
      <<Obj(Titled(<<"[", "x">>)), Txt, Open, Obj(Invented), Close>>,
      <<Txt, Obj(Titled(<<"[", "]">>))>>,
      <<Txt, Obj(Titled(<<"]", "[">>))>>,
      <<Txt, Obj(Titled(<<"s", "[", "{", " ", "}", "]">>))>> }
    \cup { <<Txt, Open>> \o [i \in 1..Len(l) |-> Obj(l[i])] \o <<Close, Txt>> :
             l \in ListsUpTo(AgentItems(pool), MaxPicked) }

LastTwo(s) == IF Len(s) > 2 THEN SubSeq(s, Len(s) - 1, Len(s)) ELSE s

\* the pools a /run request may discover
SamplePools == {SubprocessRun(input).val : input \in RunInputs}

\* a call of analyze_articles: a pool, the response of the selection agent
\* to it and what lines 163-187 return for the two
AgentCases == UNION { {[articles |-> pool, response_text |-> text,
                        result |-> analyze_articles(pool, text)] :
                          text \in Responses(pool)} :
                      pool \in SamplePools }

\* the history keeps the calls made on one pool
SamePool(history, pool) == SelectSeq(history, LAMBDA call : call.articles = pool)

\* lines 165-187 catch every exception of the parsing: once the agent has
\* answered, analyze_articles returns a list
AnalyzeArticles ==
    \E case \in AgentCases :
        /\ calls' = LastTwo(Append(SamePool(calls, case.articles),
                        [articles |-> case.articles,
                         response_text |-> case.response_text,
                         result |-> case.result, raised |-> FALSE]))
        /\ UNCHANGED <<ledgerVars, scraperVars, runVars, tool_call>>

(***************************************************************************)
(* /run requests, one after the other                                      *)
(***************************************************************************)

MaxRuns == 2       \* /run requests received

Requests == 1..MaxRuns

\* what the scraper subprocess of a request may read
WorkflowInputs ==
    << [news_config |-> RunConfig, results |-> Fetched(Feed(<<E2, E1>>)),
        bookmark_file |-> BookmarkFile(<<B2, NotADict, NoUrl, B1>>)],
       [news_config |-> RunConfig, results |-> Fetched(Failed),
        bookmark_file |-> BookmarkFile(<<B2, NotADict, NoUrl, B1>>)],
       [news_config |-> RunConfig, results |-> Fetched(Failed),
        bookmark_file |-> BookmarkFile(<<B1, SetNote>>)],
       [news_config |-> [news_sources |-> None], results |-> <<>>,
        bookmark_file |-> BookmarkFile(<<B1, SetNote>>)] >>

\* the responses the selection agent may give in a run
WorkflowResponses(pool) ==
    { <<Txt>>, <<Open, Obj(Invented), Close>> }
    \cup { <<Txt, Open, Obj(Scored(pool[i])), Close>> : i \in {j \in DOMAIN pool : j = 1} }

\* what the writing agent may answer: nothing; a first paragraph that holds
\* tags; an empty first paragraph; a first paragraph of two lines before one
\* with an attribute, capitals and spaces around its text; a first paragraph
\* longer than the excerpt may be
PlainNews ==
    <<"<", "p", ">", "n", "e", "w", "s", " ", "<", "b", ">", "n", "o", "w",
      "<", "/", "b", ">", "<", "/", "p", ">", "<", "p", ">", "e", "n", "d", "<", "/", "p", ">">>
EmptyParagraph ==
    <<"<", "p", ">", "<", "/", "p", ">", "x", "<", "/", "p", ">">>
TwoLines ==
    <<"<", "h", "1", ">", "T", "<", "/", "h", "1", ">", "\n",
      "<", "p", ">", "a", "\n", "b", "<", "/", "p", ">", "\n",
      "<", "P", " ", "i", "d", "=", "x", ">", " ", "c", "<", "b", ">", "d", "<", "/", "b", ">",
      " ", "\t", "<", "/", "P", ">">>
LongParagraph ==
    <<"<", "p", ">", " ">> \o [i \in 1..(ExcerptLen + 5) |-> Digits[(i % 10) + 1]]
    \o <<"<", "/", "p", ">">>
WriterResponses == { <<>>, PlainNews, EmptyParagraph, TwoLines, LongParagraph }

\* what the writing agent answers in a run: nothing, or the newsletter whose
\* first paragraph has two lines
RunNewsletters == { <<>>, TwoLines }

\* RunRequest.newsletter_date
RequestDates ==
    { PlaceholderDate,
      <<"D", "e", "c", "e", "m", "b", "e", "r", " ", "1", ",", " ", "2", "0", "2", "5">> }

\* the RunRequest of the r-th /run request: the odd ones leave the date at
\* the placeholder, the even ones name a date
RunRequest(r) ==
    [newsletter_date |->
         IF r % 2 = 1 THEN PlaceholderDate
         ELSE <<"D", "e", "c", "e", "m", "b", "e", "r", " ", "1", ",", " ", "2", "0", "2", "5">>]

\* the dates datetime.now() may give
Clock ==
    { [month_name |-> <<"N", "o", "v", "e", "m", "b", "e", "r">>, day |-> 28, year |-> 2025],
      [month_name |-> <<"D", "e", "c", "e", "m", "b", "e", "r">>, day |-> 1, year |-> 2025] }

\* the date datetime.now() gives while the runs are made
RunClock ==
    { [month_name |-> <<"D", "e", "c", "e", "m", "b", "e", "r">>, day |-> 1, year |-> 2025] }

PostUrl == <<"h", "t", "t", "p", "s", ":", "/", "/", "s", "/", "p", "1">>
EditUrl == <<"h", "t", "t", "p", "s", ":", "/", "/", "s", "/">> \o WpAdmin \o <<"/", "1">>

PublisherResponses ==
    { [text |-> <<Txt>>, tool_calls |-> 0],
      [text |-> <<Txt, Url(PostUrl), Txt, Url(EditUrl)>>, tool_calls |-> 1] }

Finished_shared(r, result) ==
    /\ pc' = [pc EXCEPT ![r] = "done"]
    /\ response' = [response EXCEPT ![r] = result]
    /\ discovered_articles' = [q \in Requests |-> <<>>]
    /\ analyzed_articles' = [q \in Requests |-> <<>>]
    /\ newsletter_content' = [q \in Requests |-> <<>>]
    /\ writing_prompt' = [q \in Requests |-> NoPrompt]
    /\ publishing_prompt' = [q \in Requests |-> NoPrompt]
    /\ runs' = runs + 1
\* the locals of run_workflow are gone once it has returned or raised
Finished(r, result) ==
    /\ pc' = [pc EXCEPT ![r] = "done"]
    /\ response' = [response EXCEPT ![r] = result]
    /\ discovered_articles' = [discovered_articles EXCEPT ![r] = <<>>]
    /\ analyzed_articles' = [analyzed_articles EXCEPT ![r] = <<>>]
    /\ newsletter_content' = [newsletter_content EXCEPT ![r] = <<>>]
    /\ writing_prompt' = [writing_prompt EXCEPT ![r] = NoPrompt]
    /\ publishing_prompt' = [publishing_prompt EXCEPT ![r] = NoPrompt]
    /\ runs' = runs + 1

\* requests are numbered in the order they arrive
Arrives(r) ==
    /\ pc[r] = "new"
    /\ \A q \in Requests : q < r => pc[q] # "new"

\* the exit codes of the scraper subprocess: 1 when main() raised; a run
\* that main() would finish may still fail on what is left out here (the
\* interpreter, the imports of lines 10-24, the open() of line 105, the disk
\* json.dump writes to)
ExitCodes(input) == IF SubprocessRun(input).raised THEN {1} ELSE {0, 1}

\* run_news_scraper lines 96-98: a non-zero exit code raises
run_news_scraper_unchecked(returncode) == [raised |-> FALSE]
run_news_scraper(returncode) == [raised |-> returncode # 0]

\* what a subprocess that read `input` and exited with returncode leaves
scraper_run(input, returncode) ==
    [news_config |-> input.news_config, results |-> input.results,
     bookmark_file |-> input.bookmark_file, ledger |-> MemoryManagerInit,
     raised |-> SubprocessRun(input).raised, returncode |-> returncode]

\* how far the subprocess got with the file: main() dumps it as its last
\* step, so an exit code 0 leaves it written. A run that fails leaves the
\* file as it was when it failed before the open() of line 105 (an import
\* of lines 10-24 failed, main() raised on its way, open() itself failed);
\* when this input gets main() to line 105 the failure may also come after
\* the open(), which emptied the file (json.dump raised, the write failed)
FileLeft(input, returncode) ==
    IF returncode = 0 THEN {"written"}
    ELSE IF ~SubprocessRun(input).opened THEN {"untouched"}
    ELSE {"untouched", "truncated"}
scraper_output(input, left, file) ==
    IF left = "written" THEN File(SubprocessRun(input).val)
    ELSE IF left = "truncated" THEN Truncated
    ELSE file

\* run_workflow up to its first await: run_news_scraper raises when the
\* scraper exits with a non-zero code
ScraperFails(r) ==
    /\ Arrives(r)
    /\ \E i \in DOMAIN WorkflowInputs :
           LET input == WorkflowInputs[i]
           IN  \E returncode \in ExitCodes(input) :
                   /\ run_news_scraper(returncode).raised
                   /\ scraper_input' = scraper_run(input, returncode)
                   /\ \E left \in FileLeft(input, returncode) :
                          output_file' = scraper_output(input, left, output_file)
    /\ Finished(r, RunError("discover"))
    /\ UNCHANGED <<ledgerVars, calls, tool_call, publication_result,
                   analysis_file, draft_file, delivered>>

\* run_workflow up to its first await: the scraper has exited with code 0
\* and discovered_articles.json is not there when lines 398-400 look for it
\* (the file the scraper wrote was removed in between): run_workflow raises
DiscoveredMissing(r) ==
    /\ Arrives(r)
    /\ \E i \in DOMAIN WorkflowInputs :
           LET input == WorkflowInputs[i]
           IN  \E returncode \in ExitCodes(input) :
                   /\ ~run_news_scraper(returncode).raised
                   /\ scraper_input' = scraper_run(input, returncode)
    /\ output_file' = NoFile
    /\ Finished(r, RunError("load"))
    /\ UNCHANGED <<ledgerVars, calls, tool_call, publication_result,
                   analysis_file, draft_file, delivered>>

\* run_workflow up to its first await: the scraper subprocess writes
\* discovered_articles.json, the list is loaded (json.load, line 403, loads
\* only a file that holds JSON) and analyze_articles starts the selection
\* agent
Discover(r) ==
    /\ Arrives(r)
    /\ \E i \in DOMAIN WorkflowInputs :
           LET input == WorkflowInputs[i]
           IN  \E returncode \in ExitCodes(input) :
                   /\ ~run_news_scraper(returncode).raised
                   /\ scraper_input' = scraper_run(input, returncode)
                   /\ \E left \in FileLeft(input, returncode) :
                          output_file' = scraper_output(input, left, output_file)
    /\ output_file'.exists
    /\ output_file' # Truncated
    /\ discovered_articles' = [discovered_articles EXCEPT ![r] = output_file'.content]
    /\ pc' = [pc EXCEPT ![r] = "analyzing"]
    /\ UNCHANGED <<ledgerVars, calls, tool_call, analyzed_articles,
                   newsletter_content, publication_result, analysis_file, draft_file,
                   writing_prompt, publishing_prompt, response, runs, delivered>>

\* the selection agent has answered: analyze_articles returns, the result is
\* saved and write_newsletter starts the writer with its prompt
Analyze(r) ==
    /\ pc[r] = "analyzing"
    /\ \E text \in WorkflowResponses(discovered_articles[r]) :
           analyzed_articles' =
                  [analyzed_articles EXCEPT ![r] = analyze_articles(discovered_articles[r], text)]
    /\ analysis_file' = File(analyzed_articles'[r])
    /\ writing_prompt' = [writing_prompt EXCEPT ![r] = write_prompt(analyzed_articles'[r])]
    /\ pc' = [pc EXCEPT ![r] = "writing"]
    /\ UNCHANGED <<ledgerVars, scraperVars, calls, tool_call, discovered_articles,
                   newsletter_content, publication_result, draft_file,
                   publishing_prompt, response, runs, delivered>>

\* the writer has answered: write_newsletter saves the draft and returns,
\* publish_newsletter starts the publishing agent with its prompt
Write(r) ==
    /\ pc[r] = "writing"
    /\ \E text \in RunNewsletters, now \in RunClock :
           /\ newsletter_content' = [newsletter_content EXCEPT ![r] = text]
           /\ draft_file' = File(text)
           /\ publishing_prompt' =
                  [publishing_prompt EXCEPT
                       ![r] = publish_prompt(text, RunRequest(r).newsletter_date, now)]
    /\ pc' = [pc EXCEPT ![r] = "publishing"]
    /\ UNCHANGED <<ledgerVars, scraperVars, calls, tool_call, discovered_articles,
                   analyzed_articles, publication_result, analysis_file,
                   writing_prompt, response, runs, delivered>>

\* the publishing agent has answered: publish_newsletter returns and
\* run_workflow returns the RunResponse
Publish(r) ==
    /\ pc[r] = "publishing"
    /\ \E a \in PublisherResponses :
           publication_result' = publish_result(a.text, a.tool_calls)
    /\ Finished(r, run_response(discovered_articles[r], analyzed_articles[r],
                                publication_result'))
    /\ delivered' = delivered \cup
           {get(analyzed_articles[r][j], "url", None) :
                j \in {k \in DOMAIN analyzed_articles[r] :
                           ~get(analyzed_articles[r][k], "is_bookmark", FALSE)}}
    /\ UNCHANGED <<ledgerVars, scraperVars, calls, tool_call, analysis_file,
                   draft_file>>

\* an agent call raises: run_workflow does not catch it
AgentRaises(r) ==
    /\ pc[r] \in {"analyzing", "writing", "publishing"}
    /\ Finished(r, RunError(pc[r]))
    /\ UNCHANGED <<ledgerVars, scraperVars, calls, tool_call, publication_result,
                   analysis_file, draft_file, delivered>>

(***************************************************************************)
(* The tools and the prompt builders called on their own                   *)
(***************************************************************************)

NoTool == [tool |-> "none"]

News == <<"n", "e", "w", "s">>

\* the keyword arguments of run(): the required ones alone; what the
\* publishing prompt asks for; two categories and a public status; empty
\* categories and excerpt with a featured image; what run_async passes when
\* the agent gives a title and a content only (lines 66-73); a featured
\* media id that is False, and one that is 0
WordPressArgs ==
    << [title |-> <<"t">>, content |-> <<"c">>],
       [title |-> <<"t">>, content |-> <<"c">>, status |-> "private",
        categories |-> <<WeeklySummary>>, excerpt |-> <<"e">>],
       [title |-> <<"t">>, content |-> <<"c">>, status |-> "publish",
        categories |-> <<WeeklySummary, News>>],
       [title |-> <<"t">>, content |-> <<"c">>, status |-> "draft",
        categories |-> <<>>, excerpt |-> <<>>, featured_media_id |-> 99],
       [title |-> <<"t">>, content |-> <<"c">>, status |-> "private",
        categories |-> None, excerpt |-> None, featured_media_id |-> None],
       [title |-> <<"t">>, content |-> <<"c">>, categories |-> <<News>>,
        featured_media_id |-> FALSE],
       [title |-> <<"t">>, content |-> <<"c">>, excerpt |-> <<"e">>,
        featured_media_id |-> 0] >>

\* what the site answers when a category is looked up and, if need be, created
Lookups ==
    { [search |-> "raises", error |-> "timed out"],
      [search |-> "ok", found |-> <<[id |-> 3, name |-> str_lower(WeeklySummary)]>>,
       create |-> "failed"],
      [search |-> "ok", found |-> <<[id |-> 4, name |-> News]>>,
       create |-> "ok", created |-> 5],
      [search |-> "failed", create |-> "raises"],
      [search |-> "ok", found |-> <<>>, create |-> "failed"] }

\* what the site answers to the request that creates the post
PostOutcomes ==
    { [outcome |-> "raises", error |-> "Network error"],
      [outcome |-> "http_error", status_code |-> 401, body_is_json |-> TRUE,
       body |-> [message |-> "Authentication failed"]],
      [outcome |-> "http_error", status_code |-> 500, body_is_json |-> FALSE],
      [outcome |-> "ok", body_is_json |-> TRUE, body |-> [id |-> 123, link |-> PostUrl]],
      [outcome |-> "ok", body_is_json |-> TRUE, body |-> [id |-> 7, link |-> PostUrl]],
      [outcome |-> "ok", body_is_json |-> TRUE, body |-> [id |-> 4050, link |-> <<>>]],
      [outcome |-> "ok", body_is_json |-> TRUE, body |-> [link |-> PostUrl]],
      [outcome |-> "ok", body_is_json |-> FALSE] }

\* the site's answers to a call of run(): one lookup for each category name
\* and the answer to the request that creates the post
WordPressEnvs(args) ==
    LET names == py_or(get(args, "categories", None), <<>>)
    IN  [lookups : [DOMAIN names -> Lookups], post : PostOutcomes]

\* the bookmark files the loader may be pointed at: local ones and objects
\* of a bucket
InBucket(file) ==
    [k \in DOMAIN file \cup {"gcs"} |-> IF k = "gcs" THEN TRUE ELSE file[k]]

LoaderFiles ==
    LET local == BookmarkFiles
                 \o <<BookmarkFile(<<B1>>), BookmarkFile(None),
                      [state |-> "ok", data |-> EmptyDict],
                      [state |-> "unparsable"],
                      [state |-> "ok", data |-> [version |-> 1]],
                      [state |-> "ok", data |-> [scalar |-> <<"x">>]],
                      [state |-> "ok", data |-> None],
                      BookmarkFile(<<>>), BookmarkFile(<<NotADict>>),
                      BookmarkFile(<<<<"u">>, B1>>),
                      BookmarkFile(FALSE), BookmarkFile(0), BookmarkFile(TRUE)>>
    IN  local \o [i \in DOMAIN local |-> InBucket(local[i])]

BookmarkLoaderRun ==
    \E i \in DOMAIN LoaderFiles :
        LET file == LoaderFiles[i]
        IN  /\ tool_call' = [tool |-> "BookmarkLoaderTool.run", file |-> file,
                             result |-> BookmarkLoaderTool_run(file)]
            /\ UNCHANGED <<ledgerVars, scraperVars, runVars, calls>>

ScraperUrls ==
    { <<"s", "/", "F", "e", "e", "d">>, <<"s", "/", "a", ".", "x", "m", "l">>,
      <<"s", "/", "p">>, None }

ScraperArgs ==
    UNION { { [url |-> url],
              [url |-> url, mode |-> "auto", extract_links |-> TRUE],
              [url |-> url, mode |-> "rss"],
              [url |-> url, mode |-> "html", extract_links |-> TRUE],
              [url |-> url, mode |-> "pdf"] } : url \in ScraperUrls }

RawEntry1 ==
    [title |-> <<"T", "1">>, link |-> <<"a">>, content |-> <<[value |-> <<"c">>]>>,
     description |-> <<"d">>, summary |-> <<"s">>, published |-> <<"2", "0", "2", "5">>,
     updated |-> <<"2", "0", "2", "6">>]
RawEntry2 == [description |-> <<"d">>, updated |-> <<"2", "0", "2", "6">>]

\* a datetime, and a datetime with microseconds and a time zone
Dated == [year |-> 2025, month |-> 1, day |-> 5, hour |-> 9, minute |-> 3, second |-> 0,
          microsecond |-> 0]
DatedInZone == [year |-> 987, month |-> 12, day |-> 31, hour |-> 23, minute |-> 59,
                second |-> 58, microsecond |-> 1200, utcoffset |-> 0 - 330]

Parsed(publish_date) ==
    [outcome |-> "ok",
     article |-> [title |-> <<"T">>, text |-> <<"x">>, meta_description |-> <<>>,
                  authors |-> <<<<"A">>, <<"B">>>>, publish_date |-> publish_date,
                  top_image |-> <<>>, images |-> <<>>, links |-> <<>>]]

\* what the download and parse of the page give
Pages ==
    << [outcome |-> "raises", error |-> "download failed"],
       Parsed(None), Parsed(<<>>), Parsed(Dated), Parsed(DatedInZone),
       Parsed(<<"2", "0", "2", "5">>) >>

ScraperEnvs ==
    [head : { [outcome |-> "raises"],
              [outcome |-> "ok", content_type |-> <<"a", "/", "R", "S", "S">>],
              [outcome |-> "ok", content_type |-> <<"t", "/", "h", "t", "m", "l">>],
              [outcome |-> "ok"] },
     feed : { [outcome |-> "raises", error |-> "feed error"],
              [outcome |-> "ok", entries |-> <<>>],
              [outcome |-> "ok", title |-> <<"F">>, entries |-> <<RawEntry1, RawEntry2>>] },
     page : DOMAIN Pages]

\* WebScraperTool.run called with args while the network gives env
WebScraperRun ==
    \E args \in ScraperArgs, net \in ScraperEnvs :
        LET env == [head |-> net.head, feed |-> net.feed, page |-> Pages[net.page]]
        IN  /\ tool_call' = [tool |-> "WebScraperTool.run", args |-> args, env |-> env,
                             steps |-> WebScraperTool_steps(args, env),
                             result |-> WebScraperTool_run(args, env)]
            /\ UNCHANGED <<ledgerVars, scraperVars, runVars, calls>>

\* WordPressTool.run called with args while the site answers env
WordPressRun ==
    \E i \in DOMAIN WordPressArgs :
        \E env \in WordPressEnvs(WordPressArgs[i]) :
        LET args == WordPressArgs[i]
        IN  /\ tool_call' = [tool |-> "WordPressTool.run", args |-> args, env |-> env,
                             sent |-> WordPressTool_sent(args, env),
                             result |-> WordPressTool_run(args, env)]
            /\ UNCHANGED <<ledgerVars, scraperVars, runVars, calls>>

\* _get_or_create_categories called with one or two names
GetOrCreateCategories ==
    \E names \in ListsUpTo({WeeklySummary, News}, 2) \ {<<>>},
       lookups \in Lookups \X Lookups :
        /\ tool_call' = [tool |-> "WordPressTool._get_or_create_categories",
                         names |-> names, lookups |-> lookups,
                         requests |-> category_requests(names, lookups, 1),
                         result |-> _get_or_create_categories(names, lookups, 1)]
        /\ UNCHANGED <<ledgerVars, scraperVars, runVars, calls>>

\* publish_newsletter up to the call of the publishing agent
PublishNewsletter ==
    \E newsletter_html \in WriterResponses, newsletter_date \in RequestDates, now \in Clock :
        /\ tool_call' = [tool |-> "publish_newsletter", html |-> newsletter_html,
                         newsletter_date |-> newsletter_date, now |-> now,
                         prompt |-> publish_prompt(newsletter_html, newsletter_date, now)]
        /\ UNCHANGED <<ledgerVars, scraperVars, runVars, calls>>

InitLedger ==
    /\ processed_urls = MemoryManagerInit
    /\ session_ttl_days = DefaultTtlDays
    /\ recorded = {}
    /\ ret = NoCall

InitScraper ==
    /\ scraper_input = NoInput
    /\ output_file = NoFile

InitRun ==
    /\ pc = [r \in Requests |-> "new"]
    /\ discovered_articles = [r \in Requests |-> <<>>]
    /\ analyzed_articles = [r \in Requests |-> <<>>]
    /\ newsletter_content = [r \in Requests |-> <<>>]
    /\ publication_result = NoResult
    /\ writing_prompt = [r \in Requests |-> NoPrompt]
    /\ publishing_prompt = [r \in Requests |-> NoPrompt]
    /\ analysis_file = NoFile
    /\ draft_file = NoFile
    /\ response = [r \in Requests |-> NoResult]
    /\ runs = 0
    /\ delivered = {}

Init == InitLedger /\ InitScraper /\ InitRun /\ calls = <<>> /\ tool_call = NoTool

NextLedger ==
    \/ AddProcessedUrl
    \/ IsProcessed
    \/ GetUnprocessedUrls
    \/ GetProcessedCount
    \/ ClearOldEntries

SpecLedger == Init /\ [][NextLedger]_vars

NextState ==
    \/ AddProcessedUrl
    \/ IsProcessed
    \/ SaveState
    \/ LoadState

SpecState == Init /\ [][NextState]_vars

NextScraper ==
    \/ MarkAsProcessed
    \/ NewsScraperMain

SpecScraper == Init /\ [][NextScraper]_vars

NextSelect == AnalyzeArticles

Next ==
    \E r \in Requests :
        \/ ScraperFails(r)
        \/ DiscoveredMissing(r)
        \/ Discover(r)
        \/ Analyze(r)
        \/ Write(r)
        \/ Publish(r)
        \/ AgentRaises(r)

Spec == Init /\ [][Next]_vars

SpecSelect == Init /\ [][NextSelect]_vars

NextTools ==
    \/ BookmarkLoaderRun
    \/ GetOrCreateCategories
    \/ WordPressRun
    \/ PublishNewsletter

SpecTools == Init /\ [][NextTools]_vars

NextFetch == WebScraperRun

SpecFetch == Init /\ [][NextFetch]_vars

(***************************************************************************)
(* Claims about the ledger                                                 *)
(***************************************************************************)

\* u and v have the same trimmed, lower-cased form
SameNormalForm(u, v) ==
    LET a == str_strip(u)
        b == str_strip(v)
    IN  /\ Len(a) = Len(b)
        /\ \A i \in 1..Len(a) : char_lower(a[i]) = char_lower(b[i])

\* C7: ledger membership is case-insensitive and whitespace-trimmed: after any
\* sequence of add_processed_url calls, is_processed(v) is true exactly when
\* some recorded url has the same trimmed, lower-cased form as v; this holds of
\* every url v and of the value every is_processed call returned.
C7_MembershipNormalized ==
    /\ \A v \in LedgerUrls :
           is_processed(processed_urls, v)
               <=> \E u \in recorded : SameNormalForm(u, v)
    /\ ret.op = "is_processed" =>
           (ret.val <=> \E u \in recorded : SameNormalForm(u, ret.url))

\* C7 witness: is_processed returned true for a url that was never passed to
\* add_processed_url itself, only a differently cased or padded spelling of it.
C7_Witness ==
    /\ ret.op = "is_processed"
    /\ ret.val = TRUE
    /\ ret.url \notin recorded
    /\ \E u \in recorded : u # ret.url /\ SameNormalForm(u, ret.url)

\* the classes of recorded urls under SameNormalForm
DistinctNormalized(S) ==
    {{v \in S : SameNormalForm(u, v)} : u \in S}

\* C8: recording is idempotent: an add_processed_url call on a url whose
\* normalized form was already in the ledger left the ledger unchanged, and
\* get_processed_count equals the number of distinct normalized urls recorded.
C8_RecordIdempotent ==
    /\ (/\ ret.op = "add_processed_url"
        /\ \E w \in ret.before : SameNormalForm(w, ret.url))
           => processed_urls = ret.before
    /\ get_processed_count(processed_urls) = Cardinality(DistinctNormalized(recorded))
    /\ ret.op = "get_processed_count" =>
           ret.val = Cardinality(DistinctNormalized(recorded))

\* C8 witness: two differently spelled urls with one normalized form were
\* recorded, the second call changed nothing, and the count is 1.
C8_Witness ==
    /\ ret.op = "add_processed_url"
    /\ Cardinality(recorded) = 2
    /\ processed_urls = ret.before
    /\ get_processed_count(processed_urls) = 1

\* C24: the ledger never evicts: whatever add_processed_url, is_processed,
\* get_unprocessed_urls, get_processed_count and clear_old_entries calls are
\* made, a url once recorded stays recorded, no call takes a url out of the
\* ledger, and clear_old_entries returns 0 and leaves the ledger as it was.
C24_NeverEvicts ==
    /\ [](\A u \in recorded : is_processed(processed_urls, u))
    /\ [](ret.op = "clear_old_entries" => (ret.val = 0 /\ processed_urls = ret.before))
    /\ [][processed_urls \subseteq processed_urls']_vars

\* C24 witness: clear_old_entries was called on a ledger holding a url and
\* returned 0 with the url still there.
C24_Witness ==
    /\ ret.op = "clear_old_entries"
    /\ ret.val = 0
    /\ ret.before # {}
    /\ \E u \in recorded : is_processed(processed_urls, u)

\* C26: after load_state(s), is_processed(u) is true of every url u listed in
\* s["processed_urls"], and every url the ledger holds is in trimmed
\* lower-case form.
C26_LoadedUrlsNormalized ==
    /\ (ret.op = "load_state" /\ "processed_urls" \in DOMAIN ret.state) =>
           \A i \in DOMAIN ret.state.processed_urls :
               is_processed(processed_urls, ret.state.processed_urls[i])
    /\ \A w \in processed_urls : w = normalize(w)

(***************************************************************************)
(* Claims about discovery                                                  *)
(***************************************************************************)

\* C5: the ledger filter of discovery returns exactly the subsequence of the
\* candidates (what discovery yields from the same input with an empty
\* ledger) that are bookmarks or whose url is not recorded in the ledger, in
\* the candidates' order: a bookmark whose url is in the ledger is kept, a
\* non-bookmark whose url is in the ledger is not. This holds of every file
\* discovery has written.
C5_LedgerFilter ==
    (output_file.exists /\ ~scraper_input.raised) =>
        LET candidates == news_scraper_main(scraper_input, MemoryManagerInit).val
            pool == output_file.content
            in_ledger(a) == \E w \in scraper_input.ledger : SameNormalForm(w, a.url)
        IN  /\ pool = SelectSeq(candidates, LAMBDA a : a.is_bookmark \/ ~in_ledger(a))
            /\ \A i \in DOMAIN candidates :
                   candidates[i].is_bookmark => \E j \in DOMAIN pool : pool[j] = candidates[i]
            /\ \A j \in DOMAIN pool : ~pool[j].is_bookmark => ~in_ledger(pool[j])

\* C5 witness: discovery ran with a ledger that holds the url of a bookmark
\* and of a feed entry; the bookmark is in the pool, the entry is not, and
\* another feed entry is.
C5_Witness ==
    /\ output_file.exists
    /\ ~scraper_input.raised
    /\ LET candidates == news_scraper_main(scraper_input, MemoryManagerInit).val
           pool == output_file.content
           in_ledger(a) == \E w \in scraper_input.ledger : SameNormalForm(w, a.url)
       IN  /\ \E j \in DOMAIN pool : pool[j].is_bookmark /\ in_ledger(pool[j])
           /\ \E i \in DOMAIN candidates :
                  /\ ~candidates[i].is_bookmark /\ in_ledger(candidates[i])
                  /\ \A j \in DOMAIN pool : pool[j] # candidates[i]
           /\ \E j \in DOMAIN pool : ~pool[j].is_bookmark

\* the title discovery is to give a bookmark without a note
Placeholder == <<"U","s","e","r"," ","B","o","o","k","m","a","r","k">>

\* C10: every bookmark the loader returns carries priority 11, and every one
\* of them is in the candidate pool as an article with is_bookmark = true,
\* priority 11 and its note as title, or the placeholder when it has no note.
C10_BookmarksEnterPool ==
    (output_file.exists /\ ~scraper_input.raised) =>
        LET loaded == load_user_bookmarks(scraper_input.bookmark_file).bookmarks
            in_pool == SelectSeq(output_file.content, LAMBDA a : a.is_bookmark)
        IN  /\ \A i \in DOMAIN loaded : loaded[i].priority = 11
            /\ Len(in_pool) = Len(loaded)
            /\ \A i \in DOMAIN in_pool :
                   /\ in_pool[i].url = loaded[i].url
                   /\ "priority" \in DOMAIN in_pool[i]
                   /\ in_pool[i].priority = 11
                   /\ in_pool[i].title =
                          IF loaded[i].note \in {<<>>, None} THEN Placeholder
                          ELSE loaded[i].note

\* the i-th source was fetched and gave a feed
Succeeded(input, i) ==
    LET source == SourcesOf(input.news_config)[i]
        result == input.results[i]
    IN  /\ source.type \in {"rss", "auto"}
        /\ get(result, "success", FALSE)
        /\ get(result, "type", "none") = "rss"

\* the entries of the i-th result
EntriesOf(input, i) == py_or(get(input.results[i], "entries", None), <<>>)

\* C14: a source whose fetch fails is skipped and discovery goes on: whatever
\* the sources are and whichever of them fail, once the scraper has run the
\* output file is written and holds every entry of every source that
\* succeeded, save those the ledger filters out, and every bookmark.
C14_FailedSourceSkipped ==
    scraper_input # NoInput =>
        LET sources == SourcesOf(scraper_input.news_config)
            pool == output_file.content
            loaded == load_user_bookmarks(scraper_input.bookmark_file).bookmarks
            in_ledger(url) == \E w \in scraper_input.ledger : SameNormalForm(w, url)
        IN  /\ output_file.exists
            /\ ~scraper_input.raised
            /\ \A i \in DOMAIN sources :
                   Succeeded(scraper_input, i) =>
                       LET entries == EntriesOf(scraper_input, i)
                       IN  \A k \in DOMAIN entries :
                               ~in_ledger(entries[k].link) =>
                                   \E j \in DOMAIN pool :
                                       /\ pool[j].url = entries[k].link
                                       /\ pool[j].source = sources[i].name
                                       /\ ~pool[j].is_bookmark
            /\ \A b \in DOMAIN loaded :
                   \E j \in DOMAIN pool : pool[j].is_bookmark /\ pool[j].url = loaded[b].url

(***************************************************************************)
(* Claims about the selection step                                         *)
(***************************************************************************)

IsBookmark(a) == get(a, "is_bookmark", FALSE)
TopicOf(a) == get(a, "matched_topic", None)
Bookmarks(pool) == SelectSeq(pool, IsBookmark)
Others(pool) == SelectSeq(pool, LAMBDA a : ~IsBookmark(a))

\* the pool's article a is in the result
Selected(result, a) ==
    \E j \in DOMAIN result :
        /\ get(result[j], "url", None) = a.url
        /\ IsBookmark(result[j]) = a.is_bookmark

NoDate(d) == d = None \/ d = <<>>
\* bookmark a is chosen before bookmark b: the newer one, then the smaller url
ChosenBefore(a, b) ==
    LET da == a.published_date
        db == b.published_date
    IN  \/ ~NoDate(da) /\ (NoDate(db) \/ str_lt(db, da))
        \/ (da = db \/ (NoDate(da) /\ NoDate(db))) /\ str_lt(a.url, b.url)

LastCall == calls[Len(calls)]

\* C1: every bookmark of the pool handed to the selection step is in the
\* result; only when the pool has more than 20 bookmarks is the result exactly
\* 20 bookmarks, the first by published date descending, then url ascending.
C1_BookmarksAlwaysSelected ==
    calls # <<>> =>
        LET bookmarks == Bookmarks(LastCall.articles)
            result == LastCall.result
        IN  IF Len(bookmarks) <= TargetSize
            THEN \A i \in DOMAIN bookmarks : Selected(result, bookmarks[i])
            ELSE /\ Len(result) = TargetSize
                 /\ \A j \in DOMAIN result :
                        \E i \in DOMAIN bookmarks : result[j] = bookmarks[i]
                 /\ \A i \in DOMAIN bookmarks :
                        Selected(result, bookmarks[i])
                        \/ \A j \in DOMAIN result : ChosenBefore(result[j], bookmarks[i])

\* the pool's non-bookmark articles of the topics in `topics` that the cap of
\* 10 per topic lets through
RECURSIVE EligibleIn(_, _)
EligibleIn(others, topics) ==
    IF topics = {} THEN 0
    ELSE LET t == CHOOSE t \in topics : TRUE
             bucket == Cardinality({i \in DOMAIN others : TopicOf(others[i]) = t})
         IN  Min(10, bucket) + EligibleIn(others, topics \ {t})

EligibleOthers(pool) ==
    LET others == Others(pool)
    IN  EligibleIn(others, {TopicOf(others[i]) : i \in DOMAIN others})

\* C2: the selection result has min(20, bookmarks + eligible non-bookmark
\* candidates) articles, never more and never fewer.
C2_ResultLength ==
    calls # <<>> =>
        Len(LastCall.result)
            = Min(TargetSize, Len(Bookmarks(LastCall.articles))
                              + EligibleOthers(LastCall.articles))

\* C3: in every selection result at most 10 non-bookmark articles share a
\* matched topic, the articles with no matched topic counting as one topic.
C3_TopicCap ==
    calls # <<>> =>
        LET others == Others(LastCall.result)
        IN  \A i \in DOMAIN others :
                Cardinality({j \in DOMAIN others : TopicOf(others[j]) = TopicOf(others[i])})
                    <= 10

\* C4: two selection steps on the same candidate pool give the same articles
\* in the same order.
C4_Deterministic ==
    (Len(calls) = 2 /\ calls[1].articles = calls[2].articles)
        => calls[1].result = calls[2].result

\* C9: in every selection result a non-bookmark article has a priority from 7
\* to 10 and a bookmark has priority 11.
C9_PriorityRange ==
    calls # <<>> =>
        \A j \in DOMAIN LastCall.result :
            LET a == LastCall.result[j]
            IN  /\ "priority" \in DOMAIN a
                /\ IF IsBookmark(a) THEN a.priority = 11
                   ELSE 7 <= a.priority /\ a.priority <= 10

\* the article carries a resolved priority
HasPriority(a) == "priority" \in DOMAIN a

\* C15: the selection step signals an error exactly when the target size is
\* not positive or some article of the pool has no resolved priority; in every
\* other case it returns without an error, and a pool of fewer than 20
\* articles is returned whole.
C15_ErrorOnlyOnContractViolation ==
    calls # <<>> =>
        LET pool == LastCall.articles
            violated == \/ TargetSize <= 0
                        \/ \E i \in DOMAIN pool : ~HasPriority(pool[i])
        IN  /\ LastCall.raised <=> violated
            /\ (~LastCall.raised /\ Len(pool) < TargetSize) => LastCall.result = pool

\* C16: every non-bookmark candidate has a priority before selection, 7 to 10
\* with the matched topic's name, or 7 with no matched topic when nothing
\* matched; an unmatched candidate is kept, with priority 7, never dropped.
C16_PriorityBeforeSelection ==
    calls # <<>> =>
        LET pool == Others(LastCall.articles)
            result == Others(LastCall.result)
        IN  /\ \A i \in DOMAIN pool :
                   /\ HasPriority(pool[i])
                   /\ "matched_topic" \in DOMAIN pool[i]
                   /\ pool[i].priority \in 7..10
                   /\ pool[i].matched_topic = None => pool[i].priority = 7
            /\ \A j \in DOMAIN result :
                   /\ HasPriority(result[j])
                   /\ TopicOf(result[j]) = None => result[j].priority = 7

\* C21: the selection result lists bookmarks first: no non-bookmark article
\* stands before a bookmark in the result.
C21_BookmarksFirst ==
    calls # <<>> =>
        LET result == LastCall.result
        IN  \A i, j \in DOMAIN result :
                i < j => ~(~IsBookmark(result[i]) /\ IsBookmark(result[j]))

\* a ranks below b under the key (priority descending, published date
\* descending with missing dates last, url ascending)
RanksBelow(a, b) ==
    LET da == get(a, "published_date", None)
        db == get(b, "published_date", None)
    IN  \/ a.priority < b.priority
        \/ /\ a.priority = b.priority
           /\ \/ NoDate(da) /\ ~NoDate(db)
              \/ ~NoDate(da) /\ ~NoDate(db) /\ str_lt(da, db)
              \/ /\ da = db \/ (NoDate(da) /\ NoDate(db))
                 /\ str_lt(get(b, "url", <<>>), get(a, "url", <<>>))

\* C22: the non-bookmark part of the selection result is ordered by priority
\* descending, then published date descending with missing dates last, then
\* url ascending: of two non-bookmark result items that carry a priority the
\* earlier one does not rank below the later one.
C22_OthersSorted ==
    calls # <<>> =>
        LET others == Others(LastCall.result)
        IN  \A i, j \in DOMAIN others :
                (i < j /\ HasPriority(others[i]) /\ HasPriority(others[j]))
                    => ~RanksBelow(others[i], others[j])

\* the text holds a "[" with a "]" somewhere after it
HoldsArray(text) ==
    \E p \in positions(text, {"["}), q \in positions(text, {"]"}) : before(p, q)

\* C23: when the agent's response holds no JSON array, or the array found
\* cannot be parsed, analyze_articles returns the first 20 articles of its
\* input in input order, all of them when there are fewer, and raises nothing.
C23_FallbackFirst20 ==
    calls # <<>> =>
        LET articles == LastCall.articles
            text == LastCall.response_text
            result == LastCall.result
        IN  (~HoldsArray(text) \/ ~json_loads(re_search(text).group).ok) =>
                /\ ~LastCall.raised
                /\ Len(result) = IF Len(articles) < 20 THEN Len(articles) ELSE 20
                /\ \A i \in DOMAIN result : result[i] = articles[i]

\* C23 witness: a pool of more than 20 articles, a response whose brackets
\* hold no JSON, and a result of 20 articles.
C23_Witness ==
    /\ calls # <<>>
    /\ Len(LastCall.articles) > 20
    /\ HoldsArray(LastCall.response_text)
    /\ ~json_loads(re_search(LastCall.response_text).group).ok
    /\ Len(LastCall.result) = 20

\* C28: every article of the selection result is an article of the pool the
\* step was given, and no url stands twice in the result.
C28_ResultFromPool ==
    calls # <<>> =>
        LET pool == LastCall.articles
            result == LastCall.result
        IN  /\ \A j \in DOMAIN result :
                   \E i \in DOMAIN pool :
                       /\ get(result[j], "url", None) = pool[i].url
                       /\ IsBookmark(result[j]) = pool[i].is_bookmark
            /\ \A i, j \in DOMAIN result :
                   i # j => get(result[i], "url", None) # get(result[j], "url", None)

(***************************************************************************)
(* Claims about the runs                                                   *)
(***************************************************************************)

\* C6: a non-bookmark url delivered in a successful run is recorded in the
\* ledger at the end of that run, and is therefore not in the candidate pool a
\* later run discovers; only such urls are recorded.
C6_DeliveredUrlsRecorded ==
    /\ [](\A u \in delivered : is_processed(processed_urls, u))
    /\ [](\A w \in processed_urls : \E u \in delivered : SameNormalForm(u, w))
    /\ [][\A r \in Requests :
              (pc[r] = "new" /\ pc'[r] = "analyzing") =>
                  \A i \in DOMAIN discovered_articles'[r] :
                      ~discovered_articles'[r][i].is_bookmark
                          => ~\E u \in delivered :
                                 SameNormalForm(u, discovered_articles'[r][i].url)]_vars

\* the steps a request goes through, and the ways it ends early
StepOrder ==
    { <<"new", "analyzing">>, <<"analyzing", "writing">>, <<"writing", "publishing">>,
      <<"publishing", "done">>,
      <<"new", "done">>, <<"analyzing", "done">>, <<"writing", "done">> }

\* the urls of a list of articles
UrlsOf(articles) == {get(articles[j], "url", None) : j \in DOMAIN articles}

\* C27: when /run requests interleave, what a run writes and publishes is
\* built from the articles that run discovered and selected, and the shared
\* files another run rewrites change none of it: a step one run takes leaves
\* what every other run holds as it was; the pool a run loads is the one the
\* scraper it started made of what that scraper read; and while a run
\* writes and publishes, every article handed to its writer is one of its
\* own pool or one the selection agent it asked made up, and what it hands
\* to the publisher is the newsletter its own writer returned.
C27_RunsDoNotMix ==
    /\ [][\A r \in Requests :
              pc'[r] = pc[r] =>
                  /\ discovered_articles'[r] = discovered_articles[r]
                  /\ analyzed_articles'[r] = analyzed_articles[r]
                  /\ newsletter_content'[r] = newsletter_content[r]
                  /\ writing_prompt'[r] = writing_prompt[r]
                  /\ publishing_prompt'[r] = publishing_prompt[r]]_vars
    /\ [][\A r \in Requests :
              (pc[r] = "new" /\ pc'[r] = "analyzing") =>
                  /\ ~SubprocessRun(scraper_input').raised
                  /\ discovered_articles'[r] = SubprocessRun(scraper_input').val]_vars
    /\ [](\A r \in Requests :
              /\ pc[r] \in {"writing", "publishing"} =>
                     UrlsOf(writing_prompt[r].articles)
                         \subseteq UrlsOf(discovered_articles[r]) \cup {Invented.url}
              /\ pc[r] = "publishing" =>
                     publishing_prompt[r].content = newsletter_content[r])

\* C27 witness: two runs are about to publish, and none of the three
\* shared files holds what the first of them discovered, selected and wrote:
\* the other run has rewritten them all.
C27_Witness ==
    \E r, q \in Requests :
        /\ r # q
        /\ pc[r] = "publishing"
        /\ pc[q] = "publishing"
        /\ output_file # Truncated
        /\ output_file.content # discovered_articles[r]
        /\ analysis_file.content # analyzed_articles[r]
        /\ draft_file.content # newsletter_content[r]
        /\ discovered_articles[r] # <<>>
        /\ UrlsOf(writing_prompt[r].articles) \subseteq UrlsOf(discovered_articles[r])
        /\ ~(UrlsOf(writing_prompt[r].articles) \subseteq UrlsOf(output_file.content))
        /\ publishing_prompt[r].content = newsletter_content[r]
        /\ publishing_prompt[r].content = TwoLines

\* the run of request r ended because its discovery failed
DiscoveryFailed(r) ==
    /\ pc[r] = "done"
    /\ response[r].status = "error"
    /\ response[r].step \in {"discover", "load"}

\* C29: when the scraper subprocess exits with a non-zero code, or
\* discovered_articles.json is missing after it, run_workflow raises before
\* selection, writing or publishing starts: such a run goes from its start
\* straight to its end with an error, hands no prompt to any agent and
\* writes neither analyzed_articles.json nor the draft, and no run starts
\* selection unless the scraper exited with 0 and the file is there.
C29_FailedDiscoveryStops ==
    /\ [][\A r \in Requests :
              (/\ pc[r] = "new" /\ pc'[r] # "new"
               /\ (scraper_input'.returncode # 0 \/ ~output_file'.exists)) =>
                  /\ pc'[r] = "done"
                  /\ response'[r].status = "error"
                  /\ response'[r].step \in {"discover", "load"}
                  /\ writing_prompt'[r] = NoPrompt
                  /\ publishing_prompt'[r] = NoPrompt
                  /\ publication_result' = publication_result
                  /\ analysis_file' = analysis_file
                  /\ draft_file' = draft_file]_vars
    /\ [][\A r \in Requests :
              (pc[r] = "new" /\ pc'[r] = "analyzing") =>
                  scraper_input'.returncode = 0 /\ output_file'.exists]_vars
    /\ [][\A r \in Requests :
              DiscoveryFailed(r) => (pc'[r] = "done" /\ response'[r] = response[r])]_vars

\* C29 witness: one run ended on a failed discovery while another run,
\* whose discovery worked, is publishing.
C29_Witness ==
    \E r, q \in Requests :
        /\ DiscoveryFailed(r)
        /\ publishing_prompt[r] = NoPrompt
        /\ pc[q] = "publishing"

\* C30: a run that reaches the end of run_workflow returns status "success"
\* only if the publication succeeded, that is a post url or an edit url was
\* obtained; its summary_url is the post url if there is one, else the edit
\* url, else the path of the local draft, and is never empty.
C30_SuccessMeansPublished ==
    [][\A r \in Requests :
           (pc[r] = "publishing" /\ pc'[r] = "done" /\ response'[r].status # "error") =>
               /\ response'[r].status = "success" =>
                      /\ publication_result'.success
                      /\ \/ publication_result'.post_url # None
                         \/ publication_result'.edit_url # None
               /\ response'[r].summary_url # <<>>
               /\ response'[r].summary_url =
                      IF publication_result'.post_url # None
                      THEN publication_result'.post_url
                      ELSE IF publication_result'.edit_url # None
                      THEN publication_result'.edit_url
                      ELSE DraftPath]_vars

\* C11: within one run the steps happen in the order discover, select, write,
\* publish, each starting only after the one before has finished: the writer
\* is handed exactly the selection result, once selection has returned, and
\* the publisher is handed the newsletter body, once the writer has returned.
C11_StepsInOrder ==
    /\ [][\A r \in Requests : pc'[r] # pc[r] => <<pc[r], pc'[r]>> \in StepOrder]_vars
    /\ [](\A r \in Requests :
              /\ pc[r] \in {"new", "analyzing"} =>
                     writing_prompt[r] = NoPrompt /\ analyzed_articles[r] = <<>>
              /\ pc[r] \in {"new", "analyzing", "writing"} =>
                     publishing_prompt[r] = NoPrompt /\ newsletter_content[r] = <<>>
              /\ pc[r] \in {"writing", "publishing"} =>
                     /\ writing_prompt[r].to = "writer"
                     /\ writing_prompt[r].articles = analyzed_articles[r]
                     /\ writing_prompt[r].count = Len(analyzed_articles[r])
              /\ pc[r] = "publishing" =>
                     /\ publishing_prompt[r].to = "publisher"
                     /\ publishing_prompt[r].content = newsletter_content[r])

\* C11 witness: a run is publishing a newsletter of several lines, whose
\* first paragraph that holds no line break gives the excerpt, written from
\* a selection of several articles.
C11_Witness ==
    \E r \in Requests :
        /\ pc[r] = "publishing"
        /\ Len(analyzed_articles[r]) > 1
        /\ writing_prompt[r].articles = analyzed_articles[r]
        /\ newsletter_content[r] = TwoLines
        /\ publishing_prompt[r].content = newsletter_content[r]
        /\ publishing_prompt[r].excerpt = <<"c", "d">>

\* the requests whose run has started and not yet returned
InProgress == {r \in Requests : pc[r] \in {"analyzing", "writing", "publishing"}}

\* C12: at most one run of the workflow is in progress at any time.
C12_OneRunAtATime == Cardinality(InProgress) <= 1

(***************************************************************************)
(* Claims about the bookmark loader                                        *)
(***************************************************************************)

\* C17: BookmarkLoaderTool.run never raises: for a bookmark file that does
\* not exist it returns success = true, no bookmarks, count 0 and a warning;
\* for any other failure it returns success = false, no bookmarks, count 0 and
\* an error message.
C17_LoaderNeverRaises ==
    tool_call.tool = "BookmarkLoaderTool.run" =>
        LET file == tool_call.file
            result == tool_call.result
            fails == \/ file.state = "unparsable"
                     \/ file.state = "ok" /\ ~is_dict(file.data)
                     \/ file.state = "ok" /\ is_dict(file.data)
                            /\ ~iterable(py_or(get(file.data, "bookmarks", None), <<>>))
        IN  /\ result.success \in BOOLEAN
            /\ file.state = "missing" =>
                   /\ result.success
                   /\ result.bookmarks = <<>>
                   /\ result.count = 0
                   /\ "warning" \in DOMAIN result
            /\ fails =>
                   /\ ~result.success
                   /\ result.bookmarks = <<>>
                   /\ result.count = 0
                   /\ "error" \in DOMAIN result

\* the entries of the file that are mappings with a url key
ValidEntries(entries) ==
    SelectSeq(entries, LAMBDA e : is_dict(e) /\ "url" \in DOMAIN e)

\* the file holds a mapping whose bookmarks key, when it is there and not
\* empty, holds a list
HoldsEntries(file) ==
    /\ file.state = "ok"
    /\ is_dict(file.data)
    /\ kind(py_or(get(file.data, "bookmarks", None), <<>>)) = "list"

\* C18: the loader returns exactly the entries of the file that are mappings
\* with a url key, in file order, skipping every other entry without failing,
\* and the count it returns is the length of the list it returns.
C18_ValidEntriesInOrder ==
    tool_call.tool = "BookmarkLoaderTool.run" =>
        LET file == tool_call.file
            result == tool_call.result
        IN  /\ result.count = Len(result.bookmarks)
            /\ HoldsEntries(file) =>
                   LET valid == ValidEntries(py_or(get(file.data, "bookmarks", None), <<>>))
                   IN  /\ result.success
                       /\ Len(result.bookmarks) = Len(valid)
                       /\ \A i \in DOMAIN valid :
                              /\ result.bookmarks[i].url = valid[i].url
                              /\ result.bookmarks[i].note = get(valid[i], "note", <<>>)
                              /\ result.bookmarks[i].submitted_date =
                                     get(valid[i], "submitted_date", <<>>)

\* C18 witness: a file of four entries, two of them valid, gave two bookmarks.
C18_Witness ==
    /\ tool_call.tool = "BookmarkLoaderTool.run"
    /\ HoldsEntries(tool_call.file)
    /\ Len(py_or(get(tool_call.file.data, "bookmarks", None), <<>>)) = 4
    /\ tool_call.result.success
    /\ tool_call.result.count = 2
    /\ tool_call.result.bookmarks[1].url = <<"A">>
    /\ tool_call.result.bookmarks[2].url = <<"a">>

(***************************************************************************)
(* Claims about the web scraper                                            *)
(***************************************************************************)

\* C20: WebScraperTool.run never raises: in mode "auto" it first detects the
\* content type; it then parses as a feed when the mode is "rss" and as a page
\* otherwise; an exception of the detection or of the parsing is returned as
\* success = false with the url and the error text.
C20_ScraperNeverRaises ==
    tool_call.tool = "WebScraperTool.run" =>
        LET args == tool_call.args
            env == tool_call.env
            steps == tool_call.steps
            result == tool_call.result
            auto == "mode" \notin DOMAIN args \/ args.mode = "auto"
            detect_raises == auto /\ args.url = None
            last == steps[Len(steps)]
            \* the page's date is a str that is not empty
            no_isoformat == /\ env.page.outcome = "ok"
                            /\ kind(env.page.article.publish_date) = "list"
                            /\ env.page.article.publish_date \notin {None, <<>>}
            parse_raises == /\ ~detect_raises
                            /\ \/ last = "_parse_rss_feed" /\ env.feed.outcome = "raises"
                               \/ last = "_parse_html_page" /\ env.page.outcome = "raises"
                               \/ last = "_parse_html_page" /\ no_isoformat
        IN  /\ result.success \in BOOLEAN
            /\ auto <=> steps[1] = "_detect_content_type"
            /\ detect_raises => steps = <<"_detect_content_type">>
            /\ ~detect_raises =>
                   /\ Len(steps) = IF auto THEN 2 ELSE 1
                   /\ last \in {"_parse_rss_feed", "_parse_html_page"}
                   /\ ~auto => (last = "_parse_rss_feed" <=> args.mode = "rss")
                   /\ (auto /\ result.success) =>
                          (last = "_parse_rss_feed" <=> result.type = "rss")
            /\ result.success <=> ~(detect_raises \/ parse_raises)
            /\ ~result.success =>
                   /\ DOMAIN result = {"success", "url", "error"}
                   /\ result.url = args.url
                   /\ result.error =
                          IF detect_raises THEN "object has no attribute 'lower'"
                          ELSE IF last = "_parse_rss_feed" THEN env.feed.error
                          ELSE IF no_isoformat THEN "object has no attribute 'isoformat'"
                          ELSE env.page.error

\* C20 witness: a call in a mode that is neither "auto" nor "rss" parsed the
\* url as a page, the download raised, and the error came back as a value.
C20_Witness ==
    /\ tool_call.tool = "WebScraperTool.run"
    /\ "mode" \in DOMAIN tool_call.args
    /\ tool_call.args.mode = "pdf"
    /\ tool_call.steps = <<"_parse_html_page">>
    /\ ~tool_call.result.success
    /\ tool_call.result.error = "download failed"

(***************************************************************************)
(* Claims about publishing                                                 *)
(***************************************************************************)

\* C13: every publish request a run makes asks for status "private" and for
\* the categories ["WeeklySummary"], never for a public status; and
\* WordPressTool.run sends the post with the status it was given, "private"
\* when it was given none.
C13_PrivateStatus ==
    /\ tool_call.tool = "publish_newsletter" =>
           /\ tool_call.prompt.status = "private"
           /\ tool_call.prompt.status # "publish"
           /\ tool_call.prompt.categories = <<WeeklySummary>>
    /\ (tool_call.tool = "WordPressTool.run" /\ tool_call.sent # <<>>) =>
           /\ Len(tool_call.sent) = 1
           /\ tool_call.sent[1].status =
                  IF "status" \in DOMAIN tool_call.args THEN tool_call.args.status
                  ELSE "private"

\* C13 witness: WordPressTool.run was called without a status and sent the
\* post as private.
C13_Witness ==
    /\ tool_call.tool = "WordPressTool.run"
    /\ "status" \notin DOMAIN tool_call.args
    /\ tool_call.sent # <<>>
    /\ tool_call.sent[1].status = "private"
    /\ tool_call.result.success

\* a and b are the same but for the case of their letters
SameLetters(a, b) ==
    /\ Len(a) = Len(b)
    /\ \A k \in DOMAIN a : char_lower(a[k]) = char_lower(b[k])

\* the search for the name at position i answered with a category of that name
Existing(names, lookups, i) ==
    /\ lookups[i].search = "ok"
    /\ lookups[i].found # <<>>
    /\ SameLetters(lookups[i].found[1].name, names[i])

\* what the name at position i gives to the list of ids
Contribution(names, lookups, i) ==
    IF Existing(names, lookups, i) THEN <<lookups[i].found[1].id>>
    ELSE IF lookups[i].create = "ok" THEN <<lookups[i].created>>
    ELSE <<>>

\* the requests the name at position i stands for
RequestsFor(names, lookups, i) ==
    IF Existing(names, lookups, i) THEN <<[method |-> "GET", name |-> names[i]]>>
    ELSE <<[method |-> "GET", name |-> names[i]], [method |-> "POST", name |-> names[i]]>>

\* C25: _get_or_create_categories returns the ids in the order of the names,
\* at most one for a name: the id of the category the search found under that
\* name, whatever the letter case, with no create request sent; else the id
\* of the category it created; nothing for a name whose creation failed,
\* the names after it being processed all the same.
C25_CategoryIdsInOrder ==
    (/\ tool_call.tool = "WordPressTool._get_or_create_categories"
     /\ ~tool_call.result.raised) =>
        LET names == tool_call.names
            lookups == tool_call.lookups
            ids == tool_call.result.ids
        IN  /\ \A i \in DOMAIN names : lookups[i].search # "raises"
            /\ Len(ids) <= Len(names)
            /\ ids = IF Len(names) = 1 THEN Contribution(names, lookups, 1)
                     ELSE Contribution(names, lookups, 1) \o Contribution(names, lookups, 2)
            /\ tool_call.requests =
                     IF Len(names) = 1 THEN RequestsFor(names, lookups, 1)
                     ELSE RequestsFor(names, lookups, 1) \o RequestsFor(names, lookups, 2)

\* C25 witness: the creation of the first category failed and the second
\* name, found by the search, gave the only id.
C25_Witness ==
    /\ tool_call.tool = "WordPressTool._get_or_create_categories"
    /\ ~tool_call.result.raised
    /\ Len(tool_call.names) = 2
    /\ Contribution(tool_call.names, tool_call.lookups, 1) = <<>>
    /\ tool_call.lookups[1].create \in {"failed", "raises"}
    /\ Len(tool_call.result.ids) = 1
    /\ tool_call.result.ids = <<tool_call.lookups[2].found[1].id>>

\* the number the decimal digits spell
RECURSIVE DecimalValue(_)
DecimalValue(digits) ==
    IF digits = <<>> THEN 0
    ELSE 10 * DecimalValue(SubSeq(digits, 1, Len(digits) - 1))
         + (CHOOSE n \in 0..9 : Digits[n + 1] = digits[Len(digits)])

\* url is the address of the edit page of the post with this id: the site,
\* "/wp-admin/post.php?post=", the id in decimal digits and "&action=edit"
EditUrlOf(url, post_id) ==
    LET address == SiteUrl
                  \o <<"/", "w", "p", "-", "a", "d", "m", "i", "n", "/", "p", "o", "s", "t",
                       ".", "p", "h", "p", "?", "p", "o", "s", "t", "=">>
        action == <<"&", "a", "c", "t", "i", "o", "n", "=", "e", "d", "i", "t">>
        digits == SubSeq(url, Len(address) + 1, Len(url) - Len(action))
    IN  /\ Len(url) > Len(address) + Len(action)
        /\ SubSeq(url, 1, Len(address)) = address
        /\ SubSeq(url, Len(url) - Len(action) + 1, Len(url)) = action
        /\ \A k \in DOMAIN digits : \E n \in 0..9 : Digits[n + 1] = digits[k]
        /\ digits[1] # "0"
        /\ DecimalValue(digits) = post_id

\* C19: WordPressTool.run reports every failure as a value: an HTTP error
\* gives success = false and an error naming the status code, any other
\* exception, one raised while resolving the categories included, gives
\* success = false and the exception's text, and only a created post gives
\* success = true with its post_id, its post_url and the edit_url built from
\* that post_id.
C19_FailuresAsValues ==
    tool_call.tool = "WordPressTool.run" =>
        LET result == tool_call.result
            post == tool_call.env.post
            names == py_or(get(tool_call.args, "categories", None), <<>>)
            search_raises == \E i \in DOMAIN names :
                                 tool_call.env.lookups[i].search = "raises"
            created == /\ ~search_raises
                       /\ post.outcome = "ok"
                       /\ post.body_is_json
                       /\ {"id", "link"} \subseteq DOMAIN post.body
        IN  /\ result.success \in BOOLEAN
            /\ result.success <=> created
            /\ search_raises =>
                   /\ result.error.text = "timed out"
                   /\ tool_call.sent = <<>>
            /\ (~search_raises /\ post.outcome = "http_error") =>
                   /\ result.error.text = "HTTP error: "
                   /\ result.error.status_code = post.status_code
            /\ (~search_raises /\ post.outcome = "raises") =>
                   result.error.text = post.error
            /\ result.success =>
                   /\ result.post_id = post.body.id
                   /\ result.post_url = post.body.link
                   /\ EditUrlOf(result.edit_url, post.body.id)
                   /\ "error" \notin DOMAIN result
            /\ ~result.success => DOMAIN result = {"success", "error"}

\* C19 witness: the search for a category raised and the result is a failure
\* carrying the exception's text.
C19_Witness ==
    /\ tool_call.tool = "WordPressTool.run"
    /\ truthy(get(tool_call.args, "categories", None))
    /\ tool_call.env.lookups[1].search = "raises"
    /\ ~tool_call.result.success
    /\ tool_call.result.error.text = "timed out"

====
